---- MODULE Spec2Model ----
(***************************************************************************)
(* Model of the wishlist bot's sharing / access-control subsystem, its      *)
(* item mutations and its item filter (maunti689/wishlist_bot).             *)
(*                                                                         *)
(* Store rows are committed by single steps: every "execute + commit" pair *)
(* of database/crud.py is one step, every SELECT is one step, and a handler *)
(* is a sequence of such steps (its await points).  Under Spec the steps of *)
(* different events interleave (aiogram runs each update as its own task);  *)
(* under SeqSpec an event runs to completion before the next one starts.    *)
(***************************************************************************)
EXTENDS Integers, Sequences, FiniteSets, TLC

\* ---------------------------------------------------------------- constants
ACCESS_CODE_LENGTH == 10
ACCESS_CODE_MAX_ATTEMPTS == 5
ACCESS_CODE_BLOCK_SECONDS == 900

\* ------------------------------------------------------------------- bounds
MaxProcs == 2
MaxCats == 2
MaxOwned == 1
MaxShared == 2
MaxItems == 1

Users == {1, 2, 3}
ProcIds == 1..MaxProcs
CatIds == 1..MaxCats
SharedIds == 1..MaxShared
ItemIds == 1..MaxItems

\* Users that create and manage categories / users that redeem codes and work
\* on items, as drawn by the specifications below.
Owners == {1}
Guests == {2, 3}

SharedTypes == {"view_only", "collaborative"}
SharingTypes == {"private"} \cup SharedTypes

\* ------------------------------------------------------------ text helpers
NoText == <<>>
Rep(n, ch) == [i \in 1..n |-> ch]

\* str.upper() on the characters the model uses
UpperChar(ch) ==
    CASE ch = "a" -> "A"
      [] ch = "b" -> "B"
      [] ch = "s" -> "S"
      [] ch = "h" -> "H"
      [] ch = "r" -> "R"
      [] ch = "e" -> "E"
      [] OTHER -> ch
Upper(s) == [i \in 1..Len(s) |-> UpperChar(s[i])]
\* str.lower on the characters in use
LowerChar(ch) ==
    CASE ch = "A" -> "a"
      [] ch = "B" -> "b"
      [] OTHER -> ch
Lower(s) == [i \in 1..Len(s) |-> LowerChar(s[i])]

RECURSIVE LStrip(_)
LStrip(s) == IF Len(s) > 0 /\ Head(s) = " " THEN LStrip(Tail(s)) ELSE s
RECURSIVE RStrip(_)
RStrip(s) == IF Len(s) > 0 /\ s[Len(s)] = " " THEN RStrip(SubSeq(s, 1, Len(s) - 1)) ELSE s
Strip(s) == RStrip(LStrip(s))

AlnumChars ==
    {"A", "B", "S", "H", "R", "E", "a", "b", "s", "h", "r", "e", "1", "2", "3", "7", "9"}
IsAlnum(s) == Len(s) > 0 /\ \A i \in 1..Len(s) : s[i] \in AlnumChars

\* generate_secure_code(length): the strings it can return, cut down to the
\* two that repeat one letter of its alphabet.
GenChars == {"A", "B"}
generate_secure_code(length) == {Rep(length, ch) : ch \in GenChars}

\* f"share_{category.id}_{random_part}" of process_category_sharing_type
Digit(n) == CASE n = 1 -> "1" [] n = 2 -> "2" [] n = 3 -> "3" [] OTHER -> "9"
UuidChars == {"a"}
ShareLinkOf(cid, r) == <<"s", "h", "a", "r", "e", "_", Digit(cid), "_">> \o Rep(8, r)

\* ------------------------------------------------------------------- state
VARIABLES
    categories,   \* table categories: CatIds -> row, NoCat where no row exists
    shared,       \* table shared_categories: set of rows
    items,        \* table items: set of rows
    attempts,     \* Redis keys access_code_attempts:<user>: count and ttl
    fsm,          \* FSM storage: per user the dialogue state and its data
    redisUp,      \* whether the Redis server answers
    procs,        \* handler invocations in flight
    lastFilter,   \* the last filter_items call: user, filters, result
    notifications_enabled,  \* table users: the notification flag of each user
    sched,        \* the NotificationScheduler task: flag, position, pass data
    tags          \* table tags: set of rows

vars == <<categories, shared, items, attempts, redisUp, fsm, procs, lastFilter,
          notifications_enabled, sched, tags>>

Null == {}
Some(v) == {v}

NoCat == [name |-> "", owner |-> 0, sharing_type |-> "none", share_link |-> NoText]
Exists(c) == categories[c].sharing_type # "none"

NoFsm == [state |-> "none", name |-> "", category_id |-> 0, editing_item_id |-> 0,
          price |-> Null, date_from |-> Null, date_to |-> Null]
NoKey == [count |-> 0, ttl |-> 0]
IdleProc == [pc |-> "idle", user |-> 0, cid |-> 0, stype |-> "none", old_type |-> "none",
             code |-> NoText, users |-> {}, can_edit |-> FALSE, item |-> 0,
             clear |-> FALSE, reply |-> "none", name |-> "", ids |-> {}, tries |-> 0,
             kind |-> "none", owner |-> 0, served |-> {}, failed |-> {},
             tag |-> NoText, count |-> 0]
NoFilter == [user |-> 0, filters |-> [x \in {} |-> 0], result |-> {}]
\* NotificationScheduler.__init__: not running; no pass has taken place
NoSched == [running |-> FALSE, pc |-> "off", first |-> FALSE, now |-> [day |-> 0, us |-> 0],
            k |-> 0, rows |-> {}, sent |-> {}, served |-> {}, failed |-> {}]

Init ==
    /\ categories = [c \in CatIds |-> NoCat]
    /\ shared = {}
    /\ items = {}
    /\ attempts = [u \in Users |-> NoKey]
    /\ redisUp = TRUE
    /\ fsm = [u \in Users |-> NoFsm]
    /\ procs = [p \in ProcIds |-> IdleProc]
    /\ lastFilter = NoFilter
    /\ notifications_enabled = [u \in Users |-> TRUE]
    /\ sched = NoSched
    /\ tags = {}

Idle(p) == procs[p].pc = "idle"
Quiescent == \A p \in ProcIds : Idle(p)

\* FSMContext.clear / set_state / update_data
StateClear(u) == [fsm EXCEPT ![u] = NoFsm]
Finish(p) == [procs EXCEPT ![p] = IdleProc]

\* ------------------------------------------------------- database/crud.py
\* CategoryCRUD.create_category: INSERT + commit; the new row takes a free id
FreeCatIds == {c \in CatIds : ~Exists(c)}
NewCatId == CHOOSE c \in FreeCatIds : \A d \in FreeCatIds : c <= d
create_category(name, owner, stype) ==
    [categories EXCEPT ![NewCatId] =
        [name |-> name, owner |-> owner, sharing_type |-> stype, share_link |-> NoText]]

\* CategoryCRUD.update_category_sharing: UPDATE ... WHERE id = cid, commit
update_category_sharing(cid, stype, link) ==
    IF Exists(cid)
    THEN [categories EXCEPT ![cid].sharing_type = stype, ![cid].share_link = link]
    ELSE categories

\* a variant without the unique index on share_link
LinkConflict_never(cid, link) == FALSE

\* the unique constraint on categories.share_link rejects the UPDATE
LinkConflict(cid, link) ==
    /\ link # NoText
    /\ \E d \in CatIds \ {cid} : Exists(d) /\ categories[d].share_link = link

\* CategoryCRUD.get_category_by_share_link: the ids of the rows that match
get_category_by_share_link(link) ==
    {c \in CatIds : Exists(c) /\ categories[c].share_link = link}

revoke_all_shares_keeps_viewers(cid) == {r \in shared : r.category_id # cid \/ ~r.can_edit}

\* CategoryCRUD.revoke_all_shares: DELETE FROM shared_categories WHERE category_id = cid
revoke_all_shares(cid) == {r \in shared : r.category_id # cid}

\* CategoryCRUD.check_user_access: the rows for (category, user)
check_user_access(cid, u) == {r \in shared : r.category_id = cid /\ r.user_id = u}

\* the users read by process_sharing_type_change before it revokes
SharedUsersOf(cid) == {r.user_id : r \in {x \in shared : x.category_id = cid}}

\* INSERT into shared_categories: the new row takes a free id
FreeSharedIds == SharedIds \ {r.id : r \in shared}
NewSharedId == CHOOSE i \in FreeSharedIds : \A j \in FreeSharedIds : i <= j
InsertShared_view_only(cid, u, can_edit) ==
    shared \cup {[id |-> NewSharedId, category_id |-> cid, user_id |-> u, can_edit |-> FALSE]}

InsertShared(cid, u, can_edit) ==
    shared \cup {[id |-> NewSharedId, category_id |-> cid, user_id |-> u, can_edit |-> can_edit]}

\* CategoryCRUD.generate_unique_share_code: the codes it can return, i.e. the
\* generated candidates that no category holds when they are looked up
generate_unique_share_code ==
    {c \in generate_secure_code(ACCESS_CODE_LENGTH) : get_category_by_share_link(c) = {}}

\* the candidates generate_unique_share_code draws before it gives up
ShareCodeTries == 40

\* CategoryCRUD.update_share_link: UPDATE ... SET share_link, commit
update_share_link(cid, link) ==
    IF Exists(cid) THEN [categories EXCEPT ![cid].share_link = link] ELSE categories

\* a variant of the early return that accepts a code of any length
HasShareCode_any_length(cid) == categories[cid].share_link # NoText

\* ensure_share_code: the category holds a code of the expected length
HasShareCode(cid) ==
    /\ categories[cid].share_link # NoText
    /\ Len(categories[cid].share_link) = ACCESS_CODE_LENGTH

\* ------------------------------------------------ handlers/add_category.py
\* add_category_start
AddCategoryStart(p) ==
    \E u \in Owners :
        /\ Idle(p)
        /\ fsm' = [fsm EXCEPT ![u].state = "AddCategory.name"]
        /\ UNCHANGED <<categories, shared, items, attempts, redisUp, procs, lastFilter, notifications_enabled, sched, tags>>

\* process_category_name: a valid name that none of the user's own categories
\* has is stored and the type is asked
ProcessCategoryName(p) ==
    \E u \in Owners :
        LET used == {categories[c].name : c \in {d \in CatIds : Exists(d) /\ categories[d].owner = u}}
        IN
        /\ Idle(p)
        /\ fsm[u].state = "AddCategory.name"
        /\ {"Trip", "Gifts"} \ used # {}
        /\ fsm' = [fsm EXCEPT ![u].state = "AddCategory.sharing_type",
                              ![u].name = IF "Trip" \in used THEN "Gifts" ELSE "Trip"]
        /\ UNCHANGED <<categories, shared, items, attempts, redisUp, procs, lastFilter, notifications_enabled, sched, tags>>

\* process_category_sharing_type, up to and including create_category, while
\* fewer than n categories exist
CreateCategoryStep(p, n) ==
    \E u \in Owners, st \in SharingTypes :
        /\ Idle(p)
        /\ fsm[u].state = "AddCategory.sharing_type"
        /\ fsm[u].name # ""
        /\ Cardinality(CatIds \ FreeCatIds) < n
        /\ categories' = create_category(fsm[u].name, u, st)
        /\ IF st \in SharedTypes
           THEN /\ procs' = [procs EXCEPT ![p] =
                       [IdleProc EXCEPT !.pc = "pcs_update", !.user = u,
                                        !.cid = NewCatId, !.stype = st]]
                /\ fsm' = fsm
           ELSE /\ procs' = procs
                /\ fsm' = StateClear(u)
        /\ UNCHANGED <<shared, items, attempts, redisUp, lastFilter, notifications_enabled, sched, tags>>

\* process_category_sharing_type: update_category_sharing with the share link
CreateCategoryLink(p) ==
    \E r \in UuidChars :
        /\ procs[p].pc = "pcs_update"
        /\ categories' = update_category_sharing(procs[p].cid, procs[p].stype,
                                                 ShareLinkOf(procs[p].cid, r))
        /\ fsm' = StateClear(procs[p].user)
        /\ procs' = Finish(p)
        /\ UNCHANGED <<shared, items, attempts, redisUp, lastFilter, notifications_enabled, sched, tags>>

\* process_category_sharing_type: the second commit raises; the except branch
\* answers and clears the dialogue, the inserted row stays as it is
CreateCategoryLinkFails(p) ==
    /\ procs[p].pc = "pcs_update"
    /\ fsm' = StateClear(procs[p].user)
    /\ procs' = Finish(p)
    /\ UNCHANGED <<categories, shared, items, attempts, redisUp, lastFilter, notifications_enabled, sched, tags>>

\* -------------------------------------------------- handlers/categories.py
\* change_sharing_type: stores the category id and asks for the new type
ChangeSharingType(p, U) ==
    \E u \in U, c \in CatIds :
        /\ Idle(p)
        /\ Exists(c)
        /\ fsm' = [fsm EXCEPT ![u].state = "Manage.change_sharing_type",
                              ![u].category_id = c]
        /\ UNCHANGED <<categories, shared, items, attempts, redisUp, procs, lastFilter, notifications_enabled, sched, tags>>

\* a variant that draws a new code on every change to a shared type
PscStart_regenerates(p, U) ==
    \E u \in U, st \in SharingTypes :
        LET c == fsm[u].category_id IN
        /\ Idle(p)
        /\ fsm[u].state = "Manage.change_sharing_type"
        /\ c # 0
        /\ Exists(c)
        /\ procs' = [procs EXCEPT ![p] =
               [IdleProc EXCEPT
                   !.pc = IF st \in SharedTypes THEN "psc_gen" ELSE "psc_update",
                   !.user = u, !.cid = c, !.stype = st,
                   !.old_type = categories[c].sharing_type,
                   !.code = IF st \in SharedTypes THEN categories[c].share_link ELSE NoText]]
        /\ UNCHANGED <<categories, shared, items, attempts, redisUp, fsm, lastFilter, notifications_enabled, sched, tags>>

\* process_sharing_type_change: loads the category, keeps old_type and the code
PscStart(p, U) ==
    \E u \in U, st \in SharingTypes :
        LET c == fsm[u].category_id IN
        /\ Idle(p)
        /\ fsm[u].state = "Manage.change_sharing_type"
        /\ c # 0
        /\ Exists(c)
        /\ procs' = [procs EXCEPT ![p] =
               [IdleProc EXCEPT
                   !.pc = IF st \in SharedTypes /\ categories[c].share_link = NoText
                          THEN "psc_gen" ELSE "psc_update",
                   !.user = u, !.cid = c, !.stype = st,
                   !.old_type = categories[c].sharing_type,
                   !.code = IF st \in SharedTypes THEN categories[c].share_link ELSE NoText]]
        /\ UNCHANGED <<categories, shared, items, attempts, redisUp, fsm, lastFilter, notifications_enabled, sched, tags>>

\* generate_unique_share_code returns a code
PscGenerate(p) ==
    \E code \in generate_unique_share_code :
        /\ procs[p].pc = "psc_gen"
        /\ procs' = [procs EXCEPT ![p].pc = "psc_update", ![p].code = code]
        /\ UNCHANGED <<categories, shared, items, attempts, redisUp, fsm, lastFilter, notifications_enabled, sched, tags>>

\* generate_unique_share_code: a candidate that some category holds; the loop
\* goes on to its next candidate
GenerateCollides(p) ==
    /\ procs[p].pc \in {"psc_gen", "esc_gen"}
    /\ procs[p].tries < ShareCodeTries - 1
    /\ \E c \in generate_secure_code(ACCESS_CODE_LENGTH) : get_category_by_share_link(c) # {}
    /\ procs' = [procs EXCEPT ![p].tries = @ + 1]
    /\ UNCHANGED <<categories, shared, items, attempts, redisUp, fsm, lastFilter, notifications_enabled, sched, tags>>

\* a variant of the exhaustion that falls back to the last candidate
PscGenerateExhausted_writes(p) ==
    /\ procs[p].pc = "psc_gen"
    /\ procs[p].tries = ShareCodeTries - 1
    /\ \E c \in generate_secure_code(ACCESS_CODE_LENGTH) :
           /\ get_category_by_share_link(c) # {}
           /\ categories' = [categories EXCEPT ![procs[p].cid].sharing_type = procs[p].stype]
    /\ fsm' = StateClear(procs[p].user)
    /\ procs' = Finish(p)
    /\ UNCHANGED <<shared, items, attempts, redisUp, lastFilter, notifications_enabled, sched, tags>>

\* generate_unique_share_code raises after 40 colliding candidates; the
\* handler's except branch clears the dialogue
PscGenerateExhausted(p) ==
    /\ procs[p].pc = "psc_gen"
    /\ procs[p].tries = ShareCodeTries - 1
    /\ \E c \in generate_secure_code(ACCESS_CODE_LENGTH) : get_category_by_share_link(c) # {}
    /\ fsm' = StateClear(procs[p].user)
    /\ procs' = Finish(p)
    /\ UNCHANGED <<categories, shared, items, attempts, redisUp, lastFilter, notifications_enabled, sched, tags>>

\* update_category_sharing(category_id, sharing_type, share_code)
PscUpdate(p) ==
    LET me == procs[p] IN
    /\ me.pc = "psc_update"
    /\ IF LinkConflict(me.cid, me.code)
       THEN \* IntegrityError: except branch
            /\ categories' = categories
            /\ fsm' = StateClear(me.user)
            /\ procs' = Finish(p)
       ELSE /\ categories' = update_category_sharing(me.cid, me.stype, me.code)
            /\ IF me.old_type \in SharedTypes /\ me.stype = "private"
               THEN /\ procs' = [procs EXCEPT ![p].pc = "psc_collect"]
                    /\ fsm' = fsm
               ELSE /\ procs' = Finish(p)
                    /\ fsm' = StateClear(me.user)
    /\ UNCHANGED <<shared, items, attempts, redisUp, lastFilter, notifications_enabled, sched, tags>>

\* the users holding a grant, read through a second session
PscCollect(p) ==
    /\ procs[p].pc = "psc_collect"
    /\ procs' = [procs EXCEPT ![p].pc = "psc_revoke", ![p].users = SharedUsersOf(procs[p].cid)]
    /\ UNCHANGED <<categories, shared, items, attempts, redisUp, fsm, lastFilter, notifications_enabled, sched, tags>>

\* revoke_all_shares
PscRevoke(p) ==
    /\ procs[p].pc = "psc_revoke"
    /\ shared' = revoke_all_shares(procs[p].cid)
    /\ procs' = [procs EXCEPT ![p].pc = "psc_notify"]
    /\ UNCHANGED <<categories, items, attempts, redisUp, fsm, lastFilter, notifications_enabled, sched, tags>>

\* the access-revoked notices to `users`, the answer, state.clear()
PscNotify(p) ==
    /\ procs[p].pc = "psc_notify"
    /\ fsm' = StateClear(procs[p].user)
    /\ procs' = Finish(p)
    /\ UNCHANGED <<categories, shared, items, attempts, redisUp, lastFilter, notifications_enabled, sched, tags>>

\* the second session or revoke_all_shares raises: except branch, nothing revoked
PscRevokeFails(p) ==
    /\ procs[p].pc \in {"psc_collect", "psc_revoke"}
    /\ fsm' = StateClear(procs[p].user)
    /\ procs' = Finish(p)
    /\ UNCHANGED <<categories, shared, items, attempts, redisUp, lastFilter, notifications_enabled, sched, tags>>

\* CategoryCRUD.update_category_name
update_category_name(cid, name) ==
    IF Exists(cid) THEN [categories EXCEPT ![cid].name = name] ELSE categories

\* CategoryCRUD.delete_category: the grant rows and the category row, one commit
delete_category_rows(cid) == {r \in shared : r.category_id # cid}
delete_category(cid) == [categories EXCEPT ![cid] = NoCat]

\* category_menu / manage_access / get_share_code on a shared category whose
\* share_link is empty: code = category.share_link or ensure_share_code(...)
CategoryMenu(p, U) ==
    \E u \in U, c \in CatIds :
        /\ Idle(p)
        /\ Exists(c)
        /\ categories[c].sharing_type # "private"
        /\ categories[c].share_link = NoText
        /\ procs' = [procs EXCEPT ![p] = [IdleProc EXCEPT !.pc = "esc_start", !.user = u, !.cid = c]]
        /\ UNCHANGED <<categories, shared, items, attempts, redisUp, fsm, lastFilter, notifications_enabled, sched, tags>>

\* ensure_share_code: loads the category again; returns its code if it has one
\* of the expected length
EscStart(p) ==
    LET me == procs[p] IN
    /\ me.pc = "esc_start"
    /\ procs' = [procs EXCEPT ![p] =
           IF ~Exists(me.cid) THEN IdleProc
           ELSE IF HasShareCode(me.cid)
           THEN [me EXCEPT !.pc = "esc_done", !.code = categories[me.cid].share_link]
           ELSE [me EXCEPT !.pc = "esc_gen"]]
    /\ UNCHANGED <<categories, shared, items, attempts, redisUp, fsm, lastFilter, notifications_enabled, sched, tags>>

\* generate_unique_share_code returns a code
EscGenerate(p) ==
    \E code \in generate_unique_share_code :
        /\ procs[p].pc = "esc_gen"
        /\ procs' = [procs EXCEPT ![p].pc = "esc_update", ![p].code = code]
        /\ UNCHANGED <<categories, shared, items, attempts, redisUp, fsm, lastFilter, notifications_enabled, sched, tags>>

\* generate_unique_share_code raises; the handler's except branch answers
EscExhausted(p) ==
    /\ procs[p].pc = "esc_gen"
    /\ procs[p].tries = ShareCodeTries - 1
    /\ \E c \in generate_secure_code(ACCESS_CODE_LENGTH) : get_category_by_share_link(c) # {}
    /\ procs' = Finish(p)
    /\ UNCHANGED <<categories, shared, items, attempts, redisUp, fsm, lastFilter, notifications_enabled, sched, tags>>

\* update_share_link; an IntegrityError goes to the handler's except branch
EscUpdate(p) ==
    LET me == procs[p] IN
    /\ me.pc = "esc_update"
    /\ IF LinkConflict(me.cid, me.code)
       THEN /\ categories' = categories
            /\ procs' = Finish(p)
       ELSE /\ categories' = update_share_link(me.cid, me.code)
            /\ procs' = [procs EXCEPT ![p].pc = "esc_done"]
    /\ UNCHANGED <<shared, items, attempts, redisUp, fsm, lastFilter, notifications_enabled, sched, tags>>

\* the handler answers with the code
EscDone(p) ==
    /\ procs[p].pc = "esc_done"
    /\ procs' = Finish(p)
    /\ UNCHANGED <<categories, shared, items, attempts, redisUp, fsm, lastFilter, notifications_enabled, sched, tags>>

CategoryNames == {"Trip", "Gifts"}

\* category_rename_start: stores the category id and asks for the new name
CategoryRenameStart(p, U) ==
    \E u \in U, c \in CatIds :
        /\ Idle(p)
        /\ Exists(c)
        /\ fsm' = [fsm EXCEPT ![u].state = "Manage.rename", ![u].category_id = c]
        /\ UNCHANGED <<categories, shared, items, attempts, redisUp, procs, lastFilter, notifications_enabled, sched, tags>>

\* process_category_rename: the checks of the entered name (get_user_categories)
RnStart(p, U) ==
    \E u \in U, name \in CategoryNames :
        LET c == fsm[u].category_id IN
        /\ Idle(p)
        /\ fsm[u].state = "Manage.rename"
        /\ c # 0
        /\ \A d \in CatIds \ {c} : ~(Exists(d) /\ categories[d].owner = u /\ categories[d].name = name)
        /\ procs' = [procs EXCEPT ![p] =
               [IdleProc EXCEPT !.pc = "rn_update", !.user = u, !.cid = c, !.name = name]]
        /\ UNCHANGED <<categories, shared, items, attempts, redisUp, fsm, lastFilter, notifications_enabled, sched, tags>>

\* process_category_rename: update_category_name, state.clear()
RnUpdate(p) ==
    /\ procs[p].pc = "rn_update"
    /\ categories' = update_category_name(procs[p].cid, procs[p].name)
    /\ fsm' = StateClear(procs[p].user)
    /\ procs' = Finish(p)
    /\ UNCHANGED <<shared, items, attempts, redisUp, lastFilter, notifications_enabled, sched, tags>>

\* confirm_delete_category: loads the category and its items
DcStart(p, U) ==
    \E u \in U, c \in CatIds :
        /\ Idle(p)
        /\ Exists(c)
        /\ procs' = [procs EXCEPT ![p] =
               [IdleProc EXCEPT !.pc = "dc_items", !.user = u, !.cid = c,
                                !.ids = {x.id : x \in {y \in items : y.category_id = c}}]]
        /\ UNCHANGED <<categories, shared, items, attempts, redisUp, fsm, lastFilter, notifications_enabled, sched, tags>>

\* confirm_delete_category: delete_item for every item that was loaded
DcItems(p) ==
    /\ procs[p].pc = "dc_items"
    /\ items' = {x \in items : x.id \notin procs[p].ids}
    /\ procs' = [procs EXCEPT ![p].pc = "dc_category"]
    /\ UNCHANGED <<categories, shared, attempts, redisUp, fsm, lastFilter, notifications_enabled, sched, tags>>

\* confirm_delete_category: delete_category
DcCategory(p) ==
    /\ procs[p].pc = "dc_category"
    /\ shared' = delete_category_rows(procs[p].cid)
    /\ categories' = delete_category(procs[p].cid)
    /\ procs' = Finish(p)
    /\ UNCHANGED <<items, attempts, redisUp, fsm, lastFilter, notifications_enabled, sched, tags>>

\* ------------------------------------------------ handlers/access_codes.py
\* Redis TTL of the key: -2 no key, -1 no expiry, else the seconds left
RedisTtl(k) == IF k.count = 0 THEN -2 ELSE k.ttl

\* the `if ttl is None or ttl < 0: expire(key, BLOCK)` repair; EXPIRE on a
\* missing key changes nothing
TtlRepaired(k) ==
    IF RedisTtl(k) < 0 THEN ACCESS_CODE_BLOCK_SECONDS ELSE RedisTtl(k)
KeyRepaired(k) ==
    IF k.count > 0 /\ RedisTtl(k) < 0 THEN [k EXCEPT !.ttl = ACCESS_CODE_BLOCK_SECONDS] ELSE k

BlockTtl_never(k) == 0

\* a variant that blocks on the last counter seen while the store is away
BlockTtl_fail_closed(k) ==
    IF k.count < ACCESS_CODE_MAX_ATTEMPTS THEN 0 ELSE TtlRepaired(k)

\* _get_block_ttl: the seconds returned, and the key afterwards
BlockTtl(k) ==
    IF ~redisUp THEN 0
    ELSE IF k.count = 0 THEN 0
    ELSE IF k.count < ACCESS_CODE_MAX_ATTEMPTS THEN 0
    ELSE TtlRepaired(k)
BlockKey(k) ==
    IF redisUp /\ k.count >= ACCESS_CODE_MAX_ATTEMPTS THEN KeyRepaired(k) ELSE k

\* _register_failed_attempt: the key after INCR (+ EXPIRE on the first attempt)
Incremented(k) ==
    IF k.count = 0
    THEN [count |-> 1, ttl |-> ACCESS_CODE_BLOCK_SECONDS]
    ELSE [k EXCEPT !.count = @ + 1]
RegisterKey(k) ==
    IF ~redisUp THEN k
    ELSE IF k.count >= ACCESS_CODE_MAX_ATTEMPTS THEN KeyRepaired(k)
    ELSE IF Incremented(k).count >= ACCESS_CODE_MAX_ATTEMPTS
         THEN KeyRepaired(Incremented(k))
         ELSE Incremented(k)
RegisterTtl(k) ==
    IF ~redisUp THEN 0
    ELSE IF k.count >= ACCESS_CODE_MAX_ATTEMPTS THEN TtlRepaired(k)
    ELSE IF Incremented(k).count >= ACCESS_CODE_MAX_ATTEMPTS
         THEN TtlRepaired(Incremented(k))
         ELSE 0

\* a variant that leaves the key as it is
ResetKey_keeps(k) == k

\* _reset_attempts: DEL key
ResetKey(k) == IF redisUp THEN NoKey ELSE k

\* the format check of process_access_code
FormatOk(code) == Len(code) = ACCESS_CODE_LENGTH /\ IsAlnum(code)

\* enter_code_start
EnterCodeStart(p, U) ==
    \E u \in U :
        /\ Idle(p)
        /\ fsm' = [fsm EXCEPT ![u].state = "Manage.enter_access_code"]
        /\ UNCHANGED <<categories, shared, items, attempts, redisUp, procs, lastFilter, notifications_enabled, sched, tags>>

\* rows the redemptions in flight may still insert
PendingInserts == Cardinality({q \in ProcIds : procs[q].pc \in {"pac_lookup", "pac_check", "pac_add", "pac_insert"}})

\* BackButtonMiddleware: the Back button text never reaches a message
\* handler; the dialogue of the user is cleared
BackButton(U) ==
    \E u \in U :
        /\ Quiescent
        /\ fsm[u].state # "none"
        /\ fsm' = StateClear(u)
        /\ UNCHANGED <<categories, shared, items, attempts, redisUp, procs, lastFilter, notifications_enabled, sched, tags>>

\* a variant without the format check
PacStart_no_format(p, U, T) ==
    \E u \in U, text \in T :
        LET code == Upper(Strip(text))
            me == [IdleProc EXCEPT !.user = u, !.code = code]
        IN
        /\ Idle(p)
        /\ fsm[u].state = "Manage.enter_access_code"
        /\ Cardinality(shared) + PendingInserts < MaxShared
        /\ attempts' = [attempts EXCEPT ![u] = BlockKey(@)]
        /\ procs' = [procs EXCEPT ![p] =
               IF BlockTtl(attempts[u]) # 0
               THEN [me EXCEPT !.pc = "pac_answer", !.reply = "RateLimited"]
               ELSE [me EXCEPT !.pc = "pac_lookup"]]
        /\ UNCHANGED <<categories, shared, items, redisUp, fsm, lastFilter, notifications_enabled, sched, tags>>

\* process_access_code: block check, then the format check of the entered text
PacStart(p, U, T) ==
    \E u \in U, text \in T :
        LET code == Upper(Strip(text))
            me == [IdleProc EXCEPT !.user = u, !.code = code]
        IN
        /\ Idle(p)
        /\ fsm[u].state = "Manage.enter_access_code"
        /\ Cardinality(shared) + PendingInserts < MaxShared
        /\ attempts' = [attempts EXCEPT ![u] = BlockKey(@)]
        /\ procs' = [procs EXCEPT ![p] =
               IF BlockTtl(attempts[u]) # 0
               THEN [me EXCEPT !.pc = "pac_answer", !.reply = "RateLimited"]
               ELSE IF ~FormatOk(code)
               THEN [me EXCEPT !.pc = "pac_fail", !.reply = "BadFormat"]
               ELSE [me EXCEPT !.pc = "pac_lookup"]]
        /\ UNCHANGED <<categories, shared, items, redisUp, fsm, lastFilter, notifications_enabled, sched, tags>>

PacLookup_no_self(p) ==
    LET me == procs[p]
        found == get_category_by_share_link(me.code)
    IN
    /\ me.pc = "pac_lookup"
    /\ procs' = [procs EXCEPT ![p] =
           IF found = {}
           THEN [me EXCEPT !.pc = "pac_fail", !.reply = "CodeNotFound", !.clear = TRUE]
           ELSE LET c == CHOOSE x \in found : TRUE IN
                IF categories[c].sharing_type = "private"
                THEN [me EXCEPT !.pc = "pac_fail", !.reply = "CategoryIsPrivate", !.clear = TRUE]
                ELSE [me EXCEPT !.pc = "pac_check", !.cid = c,
                                !.can_edit = (categories[c].sharing_type = "collaborative")]]
    /\ UNCHANGED <<categories, shared, items, attempts, redisUp, fsm, lastFilter, notifications_enabled, sched, tags>>

\* get_category_by_share_link and the checks on the category found
PacLookup(p) ==
    LET me == procs[p]
        found == get_category_by_share_link(me.code)
    IN
    /\ me.pc = "pac_lookup"
    /\ procs' = [procs EXCEPT ![p] =
           IF found = {}
           THEN [me EXCEPT !.pc = "pac_fail", !.reply = "CodeNotFound", !.clear = TRUE]
           ELSE LET c == CHOOSE x \in found : TRUE IN
                IF categories[c].sharing_type = "private"
                THEN [me EXCEPT !.pc = "pac_fail", !.reply = "CategoryIsPrivate", !.clear = TRUE]
                ELSE IF categories[c].owner = me.user
                THEN [me EXCEPT !.pc = "pac_answer", !.reply = "SelfOwned", !.clear = TRUE]
                ELSE [me EXCEPT !.pc = "pac_check", !.cid = c,
                                !.can_edit = (categories[c].sharing_type = "collaborative")]]
    /\ UNCHANGED <<categories, shared, items, attempts, redisUp, fsm, lastFilter, notifications_enabled, sched, tags>>

\* _register_failed_attempt; a non-zero ttl turns the answer into the block notice
PacFail(p) ==
    LET me == procs[p] IN
    /\ me.pc = "pac_fail"
    /\ attempts' = [attempts EXCEPT ![me.user] = RegisterKey(@)]
    /\ procs' = [procs EXCEPT ![p] =
           IF RegisterTtl(attempts[me.user]) # 0
           THEN [me EXCEPT !.pc = "pac_answer", !.reply = "RateLimited", !.clear = FALSE]
           ELSE [me EXCEPT !.pc = "pac_answer"]]
    /\ UNCHANGED <<categories, shared, items, redisUp, fsm, lastFilter, notifications_enabled, sched, tags>>

\* check_user_access in the handler (scalar_one_or_none raises on two rows)
PacCheck(p) ==
    LET me == procs[p]
        rows == check_user_access(me.cid, me.user)
    IN
    /\ me.pc = "pac_check"
    /\ procs' = [procs EXCEPT ![p] =
           IF Cardinality(rows) > 1
           THEN [me EXCEPT !.pc = "pac_answer", !.reply = "Error", !.clear = TRUE]
           ELSE IF rows # {}
           THEN [me EXCEPT !.pc = "pac_reset", !.reply = "AlreadyMember"]
           ELSE [me EXCEPT !.pc = "pac_add"]]
    /\ UNCHANGED <<categories, shared, items, attempts, redisUp, fsm, lastFilter, notifications_enabled, sched, tags>>

\* add_user_access: its own check_user_access, and the update of an existing row
PacAdd(p) ==
    LET me == procs[p]
        rows == check_user_access(me.cid, me.user)
    IN
    /\ me.pc = "pac_add"
    /\ IF Cardinality(rows) > 1
       THEN /\ shared' = shared
            /\ procs' = [procs EXCEPT ![p] = [me EXCEPT !.pc = "pac_answer", !.reply = "Error", !.clear = TRUE]]
       ELSE IF rows # {}
       THEN /\ shared' = (shared \ rows) \cup {[r EXCEPT !.can_edit = me.can_edit] : r \in rows}
            /\ procs' = [procs EXCEPT ![p] = [me EXCEPT !.pc = "pac_reset", !.reply = "Granted"]]
       ELSE /\ shared' = shared
            /\ procs' = [procs EXCEPT ![p].pc = "pac_insert"]
    /\ UNCHANGED <<categories, items, attempts, redisUp, fsm, lastFilter, notifications_enabled, sched, tags>>

\* add_user_access: INSERT + commit
PacInsert(p) ==
    LET me == procs[p] IN
    /\ me.pc = "pac_insert"
    /\ FreeSharedIds # {}
    /\ shared' = InsertShared(me.cid, me.user, me.can_edit)
    /\ procs' = [procs EXCEPT ![p] = [me EXCEPT !.pc = "pac_reset", !.reply = "Granted"]]
    /\ UNCHANGED <<categories, items, attempts, redisUp, fsm, lastFilter, notifications_enabled, sched, tags>>

\* state.clear() and _reset_attempts of the AlreadyMember and Granted branches
PacReset(p) ==
    LET me == procs[p] IN
    /\ me.pc = "pac_reset"
    /\ attempts' = [attempts EXCEPT ![me.user] = ResetKey(@)]
    /\ fsm' = StateClear(me.user)
    /\ procs' = [procs EXCEPT ![p].pc = "pac_answer"]
    /\ UNCHANGED <<categories, shared, items, redisUp, lastFilter, notifications_enabled, sched, tags>>

\* the answer to the user; the failure branches clear the dialogue after it
PacAnswer(p) ==
    LET me == procs[p] IN
    /\ me.pc = "pac_answer"
    /\ fsm' = IF me.clear THEN StateClear(me.user) ELSE fsm
    /\ procs' = Finish(p)
    /\ UNCHANGED <<categories, shared, items, attempts, redisUp, lastFilter, notifications_enabled, sched, tags>>


\* ---------------------------------------------------------- item mutations
ItemNames == {"Tent", "Mug"}
ItemExists(i) == \E x \in items : x.id = i
ItemById(i) == CHOOSE x \in items : x.id = i
FreeItemIds == ItemIds \ {x.id : x \in items}
NewItemId == CHOOSE i \in FreeItemIds : \A j \in FreeItemIds : i <= j

\* ItemCRUD.create_item with the item_data of finish_item
create_item(name, cid, u, price) ==
    items \cup {[id |-> NewItemId, category_id |-> cid, owner_id |-> u, name |-> name,
                 price |-> price, date_from |-> Null, date_to |-> Null,
                 date |-> Null, notifications_enabled |-> TRUE]}

\* ItemCRUD.update_item(item_id, name=...): UPDATE ... WHERE id = item_id
update_item_name(i, name) ==
    {IF x.id = i THEN [x EXCEPT !.name = name] ELSE x : x \in items}

\* ItemCRUD.delete_item
delete_item(i) == {x \in items : x.id # i}

\* the access check of finish_item, process_category_selection,
\* confirm_delete_item and admin._can_edit on the rows as they are now
\* (check_user_access raises when two rows match: the handler then stops)
_can_edit(cid, u) ==
    IF cid \in CatIds /\ Exists(cid) /\ categories[cid].owner = u
    THEN TRUE
    ELSE LET rows == check_user_access(cid, u) IN
         /\ Cardinality(rows) = 1
         /\ \A r \in rows : r.can_edit

\* CategoryCRUD.get_user_editable_categories
get_user_editable_categories(u) ==
    {c \in CatIds : Exists(c) /\
        (categories[c].owner = u \/ \E r \in shared : r.category_id = c /\ r.user_id = u /\ r.can_edit)}

\* ------------------------------------- utils/notifications.py, change notices
\* the SELECT of send_item_added_notification and send_item_updated_notification:
\* the owner of the category and the users of its grants, without the acting
\* user, with the notification flag set
users_to_notify(cid, owner, actor) ==
    {u \in Users : /\ u = owner \/ u \in {r.user_id : r \in {x \in shared : x.category_id = cid}}
                   /\ u # actor
                   /\ notifications_enabled[u]}

\* send_item_added_notification / send_item_updated_notification: returns at
\* once unless the category object the handler loaded is of a shared type,
\* otherwise selects the recipients
NtfQuery(p) ==
    LET me == procs[p] IN
    /\ me.pc = "ntf_query"
    /\ procs' = [procs EXCEPT ![p].pc = "ntf_send",
                              ![p].users = IF me.old_type \in SharedTypes
                                           THEN users_to_notify(me.cid, me.owner, me.user)
                                           ELSE {}]
    /\ UNCHANGED <<categories, shared, items, attempts, redisUp, fsm, lastFilter, notifications_enabled, sched, tags>>

NtfSend_aborts(p) ==
    \E u \in procs[p].users, ok \in BOOLEAN :
        /\ procs[p].pc = "ntf_send"
        /\ procs' = [procs EXCEPT ![p].users = IF ok THEN @ \ {u} ELSE {},
                                  ![p].served = IF ok THEN @ \cup {u} ELSE @,
                                  ![p].failed = IF ok THEN @ ELSE @ \cup {u}]
        /\ UNCHANGED <<categories, shared, items, attempts, redisUp, fsm, lastFilter,
                       notifications_enabled, sched, tags>>

\* one turn of the loop over users_to_notify: bot.send_message inside its own
\* try/except, so a failed delivery is logged and the loop goes on
NtfSend(p) ==
    \E u \in procs[p].users, ok \in BOOLEAN :
        /\ procs[p].pc = "ntf_send"
        /\ procs' = [procs EXCEPT ![p].users = @ \ {u},
                                  ![p].served = IF ok THEN @ \cup {u} ELSE @,
                                  ![p].failed = IF ok THEN @ ELSE @ \cup {u}]
        /\ UNCHANGED <<categories, shared, items, attempts, redisUp, fsm, lastFilter, notifications_enabled, sched, tags>>

\* the rest of the handler after the notification: the answer, and
\* state.clear() in finish_item and process_edit_name
NtfDone(p) ==
    LET me == procs[p] IN
    /\ me.pc = "ntf_send" /\ me.users = {}
    /\ fsm' = IF me.kind \in {"add", "edit"} THEN StateClear(me.user) ELSE fsm
    /\ procs' = Finish(p)
    /\ UNCHANGED <<categories, shared, items, attempts, redisUp, lastFilter, notifications_enabled, sched, tags>>

\* ---------------------------------------------------- handlers/add_item.py
\* add_item_start
AddItemStart(p, U) ==
    \E u \in U :
        /\ Idle(p)
        /\ get_user_editable_categories(u) # {}
        /\ fsm' = [fsm EXCEPT ![u].state = "AddItem.name"]
        /\ UNCHANGED <<categories, shared, items, attempts, redisUp, procs, lastFilter, notifications_enabled, sched, tags>>

\* process_item_name
ProcessItemName(p, U) ==
    \E u \in U, name \in ItemNames :
        /\ Idle(p)
        /\ fsm[u].state = "AddItem.name"
        /\ fsm' = IF get_user_editable_categories(u) = {}
                  THEN StateClear(u)
                  ELSE [fsm EXCEPT ![u].state = "AddItem.category", ![u].name = name]
        /\ UNCHANGED <<categories, shared, items, attempts, redisUp, procs, lastFilter, notifications_enabled, sched, tags>>

\* process_category_selection
ProcessCategorySelection(p, U) ==
    \E u \in U, c \in CatIds :
        /\ Idle(p)
        /\ fsm[u].state = "AddItem.category"
        /\ Exists(c)
        /\ _can_edit(c, u)
        /\ fsm' = [fsm EXCEPT ![u].state = "AddItem.select_field", ![u].category_id = c]
        /\ UNCHANGED <<categories, shared, items, attempts, redisUp, procs, lastFilter, notifications_enabled, sched, tags>>

PendingItems == Cardinality({q \in ProcIds : procs[q].pc \in {"fi_access", "fi_create"}})

\* finish_item: loads the category
FiStart(p, U) ==
    \E u \in U :
        LET c == fsm[u].category_id IN
        /\ Idle(p)
        /\ fsm[u].state = "AddItem.select_field"
        /\ fsm[u].name # "" /\ c # 0
        /\ Exists(c)
        /\ Cardinality(items) + PendingItems < MaxItems
        /\ procs' = [procs EXCEPT ![p] =
               [IdleProc EXCEPT !.pc = IF categories[c].owner = u THEN "fi_create" ELSE "fi_access",
                                !.user = u, !.cid = c, !.kind = "add",
                                !.old_type = categories[c].sharing_type,
                                !.owner = categories[c].owner]]
        /\ UNCHANGED <<categories, shared, items, attempts, redisUp, fsm, lastFilter, notifications_enabled, sched, tags>>

\* finish_item: check_user_access for a user who is not the owner
FiAccess(p) ==
    LET me == procs[p] IN
    /\ me.pc = "fi_access"
    /\ procs' = IF _can_edit(me.cid, me.user)
                THEN [procs EXCEPT ![p].pc = "fi_create"]
                ELSE Finish(p)
    /\ UNCHANGED <<categories, shared, items, attempts, redisUp, fsm, lastFilter, notifications_enabled, sched, tags>>

FiCreate_notifies_first(p) ==
    /\ procs[p].pc = "fi_create"
    /\ procs' = [procs EXCEPT ![p].pc = "ntf_query", ![p].item = NewItemId]
    /\ UNCHANGED <<categories, shared, items, attempts, redisUp, fsm, lastFilter,
                   notifications_enabled, sched, tags>>

\* finish_item: create_item (INSERT + commit); the notification follows
FiCreate(p) ==
    LET me == procs[p] IN
    /\ me.pc = "fi_create"
    /\ items' = create_item(fsm[me.user].name, me.cid, me.user, fsm[me.user].price)
    /\ procs' = [procs EXCEPT ![p].pc = "ntf_query", ![p].item = NewItemId]
    /\ UNCHANGED <<categories, shared, attempts, redisUp, fsm, lastFilter, notifications_enabled, sched, tags>>

\* ------------------------------------------------------- handlers/admin.py
\* edit_item_name: opens the dialogue when _can_edit allows it
EditItemName(p, U) ==
    \E u \in U, i \in ItemIds :
        /\ Idle(p)
        /\ ItemExists(i)
        /\ _can_edit(ItemById(i).category_id, u)
        /\ fsm' = [fsm EXCEPT ![u].state = "EditItem.name", ![u].editing_item_id = i]
        /\ UNCHANGED <<categories, shared, items, attempts, redisUp, procs, lastFilter, notifications_enabled, sched, tags>>

\* process_edit_name: update_item with the submitted name (UPDATE + commit)
ProcessEditName(p, U) ==
    \E u \in U, name \in ItemNames :
        LET i == fsm[u].editing_item_id IN
        /\ Idle(p)
        /\ fsm[u].state = "EditItem.name"
        /\ items' = update_item_name(i, name)
        /\ procs' = [procs EXCEPT ![p] =
               [IdleProc EXCEPT !.pc = "pe_load", !.user = u, !.item = i, !.kind = "edit",
                                !.name = name]]
        /\ UNCHANGED <<categories, shared, attempts, redisUp, fsm, lastFilter, notifications_enabled, sched, tags>>

\* process_edit_name: get_item_by_id and get_category_by_id; item.category_id
\* raises when the item is gone, and the handler ends without state.clear()
PeLoad(p) ==
    LET me == procs[p]
        c == ItemById(me.item).category_id
    IN
    /\ me.pc = "pe_load"
    /\ procs' = IF ~ItemExists(me.item) THEN Finish(p)
                ELSE IF Exists(c)
                THEN [procs EXCEPT ![p].pc = "ntf_query", ![p].cid = c,
                                   ![p].old_type = categories[c].sharing_type,
                                   ![p].owner = categories[c].owner]
                ELSE [procs EXCEPT ![p].pc = "ntf_query", ![p].cid = c]
    /\ UNCHANGED <<categories, shared, items, attempts, redisUp, fsm, lastFilter, notifications_enabled, sched, tags>>

\* --------------------------------------------------- handlers/view_list.py
\* confirm_delete_item: loads the item and checks the rights
CdStart(p, U) ==
    \E u \in U, i \in ItemIds :
        /\ Idle(p)
        /\ ItemExists(i)
        /\ _can_edit(ItemById(i).category_id, u)
        /\ procs' = [procs EXCEPT ![p] =
               LET c == ItemById(i).category_id IN
               [IdleProc EXCEPT !.pc = "cd_delete", !.user = u, !.item = i, !.kind = "delete",
                                !.cid = c, !.old_type = categories[c].sharing_type,
                                !.owner = categories[c].owner]]
        /\ UNCHANGED <<categories, shared, items, attempts, redisUp, fsm, lastFilter, notifications_enabled, sched, tags>>

\* confirm_delete_item: delete_item (DELETE + commit); the notification follows
CdDelete(p) ==
    /\ procs[p].pc = "cd_delete"
    /\ items' = delete_item(procs[p].item)
    /\ procs' = [procs EXCEPT ![p].pc = "ntf_query"]
    /\ UNCHANGED <<categories, shared, attempts, redisUp, fsm, lastFilter, notifications_enabled, sched, tags>>

\* ------------------------------------------------ ItemCRUD.filter_items
MaxDay == 3
MaxFilterItems == 2
Days == 1..MaxDay
Prices == {0, 100, 150}

Truthy_present(f, k) == k \in DOMAIN f

\* filters.get(k): a missing key and a zero value are both falsy
Truthy(f, k) == k \in DOMAIN f /\ f[k] # 0

\* the category ids of the requesting user's grants
shared_category_ids(u) == {r.category_id : r \in {x \in shared : x.user_id = u}}

filter_items_owned_only(u, f) == {x \in items : x.owner_id = u}

filter_items_exact_only(u, f) ==
    {x \in items :
        /\ (x.owner_id = u \/ x.category_id \in shared_category_ids(u))
        /\ (Truthy(f, "price_exact") => \E v \in x.price : v = f["price_exact"])}

filter_items_date_to_only(u, f) ==
    {x \in items :
        /\ (x.owner_id = u \/ x.category_id \in shared_category_ids(u))
        /\ (Truthy(f, "date_from") => \E d \in x.date_from : d >= f["date_from"])
        /\ (Truthy(f, "date_to") => \E d \in x.date_to : d <= f["date_to"])}

\* the WHERE clauses; a comparison with a NULL column is not true
filter_items(u, f) ==
    {x \in items :
        /\ (x.owner_id = u \/ x.category_id \in shared_category_ids(u))
        /\ (Truthy(f, "category_id") => x.category_id = f["category_id"])
        /\ (Truthy(f, "price_min") => \E v \in x.price : v >= f["price_min"])
        /\ (Truthy(f, "price_max") => \E v \in x.price : v <= f["price_max"])
        /\ (Truthy(f, "price_exact") => \E v \in x.price : v = f["price_exact"])
        /\ (Truthy(f, "date_from") => \E d \in x.date_from : d >= f["date_from"])
        /\ (Truthy(f, "date_to") =>
               \/ \E d \in x.date_to : d <= f["date_to"]
               \/ (x.date_to = Null /\ \E d \in x.date_from : d <= f["date_to"]))}

NoFilters == [k \in {} |-> 0]
PriceKeys == {"price_min", "price_max", "price_exact"}
DateKeys == {"date_from", "date_to"}
FilterInputs ==
    UNION {[D -> Prices] : D \in SUBSET PriceKeys} \cup UNION {[D -> Days] : D \in SUBSET DateKeys}

\* a call of filter_items by a handler
FilterItems ==
    \E u \in Users, f \in FilterInputs :
        /\ lastFilter = NoFilter
        /\ lastFilter' = [user |-> u, filters |-> f, result |-> filter_items(u, f)]
        /\ UNCHANGED <<categories, shared, items, attempts, redisUp, fsm, procs,
                     notifications_enabled, sched, tags>>

\* stores the program can hold: a shared category of user 1, user 2 with or
\* without a grant, and items whose price and dates passed the edit dialogues
ItemDates ==
    {<<Null, Null>>} \cup {<<Some(d), Null>> : d \in Days}
        \cup {<<Some(de[1]), Some(de[2])>> : de \in {x \in Days \X Days : x[2] >= x[1]}}
ItemRows(i) ==
    {[id |-> i, category_id |-> 1, owner_id |-> i, name |-> "Tent",
      price |-> pr, date_from |-> dt[1], date_to |-> dt[2],
      date |-> Null, notifications_enabled |-> TRUE] :
        pr \in {Null} \cup {Some(v) : v \in Prices}, dt \in ItemDates}
RECURSIVE ItemStores(_)
ItemStores(n) ==
    IF n = 0 THEN {{}}
    ELSE LET less == ItemStores(n - 1) IN
         less \cup {st \cup {x} : st \in {t \in less : Cardinality(t) = n - 1}, x \in ItemRows(n)}

InitFilter ==
    /\ categories = [c \in CatIds |->
           IF c = 1 THEN [name |-> "Trip", owner |-> 1, sharing_type |-> "collaborative",
                          share_link |-> Rep(ACCESS_CODE_LENGTH, "A")]
           ELSE NoCat]
    /\ shared \in {{}, {[id |-> 1, category_id |-> 1, user_id |-> 2, can_edit |-> TRUE]}}
    /\ items \in ItemStores(MaxFilterItems)
    /\ attempts = [u \in Users |-> NoKey]
    /\ redisUp = TRUE
    /\ fsm = [u \in Users |-> NoFsm]
    /\ procs = [p \in ProcIds |-> IdleProc]
    /\ lastFilter = NoFilter
    /\ notifications_enabled = [u \in Users |-> TRUE]
    /\ sched = NoSched
    /\ tags = {}

\* ------------------------------------------------- utils/notifications.py
\* config.NOTIFICATION_DAYS_BEFORE
NOTIFICATION_DAYS_BEFORE == <<7, 1>>

\* A datetime is a point 2 * day + h: h = 0 is 00:00:00.000000 of the day (what
\* parse_date yields), h = 1 a later time of the same day. datetime.now() is a
\* day and whether its microsecond part is non-zero (us = 1).
MaxSchedDay == 2
MaxSchedItems == 2
Midnight(d) == 2 * d
Midday(d) == 2 * d + 1
DayOf(t) == t \div 2
Clock == [day : 1..MaxSchedDay, us : {0, 1}]

\* target.replace(hour=0, minute=0, second=0) and target.replace(hour=23,
\* minute=59, second=59) for target = now + timedelta(days=n): replace() keeps
\* the microseconds of now
WindowFrom(now, n) == Midnight(now.day + n) + now.us
WindowTo(now, n) == Midday(now.day + n)
InWindow(col, now, n) == \E t \in col : WindowFrom(now, n) <= t /\ t <= WindowTo(now, n)

DueRows_any_user_flag(now, n) ==
    {[item |-> x.id, user |-> x.owner_id] :
        x \in {y \in items : /\ InWindow(y.date_from, now, n) \/ InWindow(y.date, now, n)
                             /\ y.notifications_enabled}}

\* the SELECT of _check_item_notifications for one days_before: items joined
\* with their owner, a date column inside the window, both flags set
DueRows(now, n) ==
    {[item |-> x.id, user |-> x.owner_id] :
        x \in {y \in items : /\ InWindow(y.date_from, now, n) \/ InWindow(y.date, now, n)
                             /\ y.notifications_enabled
                             /\ notifications_enabled[y.owner_id]}}

\* NotificationScheduler.start: sets the flag and calls the immediate pass
SchedStart ==
    /\ sched.pc = "off"
    /\ sched' = [NoSched EXCEPT !.running = TRUE, !.first = TRUE, !.pc = "begin"]
    /\ UNCHANGED <<categories, shared, items, attempts, redisUp, fsm, procs, lastFilter,
                   notifications_enabled, tags>>

\* _check_item_notifications: now = datetime.now(), sent = set()
PassBegin ==
    \E now \in Clock :
        /\ sched.pc = "begin"
        /\ now.day >= sched.now.day
        /\ sched' = [sched EXCEPT !.pc = "query", !.now = now, !.k = 1, !.rows = {},
                                  !.sent = {}, !.served = {}, !.failed = {}]
        /\ UNCHANGED <<categories, shared, items, attempts, redisUp, fsm, procs, lastFilter,
                       notifications_enabled, tags>>

\* _check_item_notifications: session.execute for the current days_before
SchedQuery ==
    /\ sched.pc = "query"
    /\ sched' = [sched EXCEPT !.pc = "send",
                              !.rows = DueRows(sched.now, NOTIFICATION_DAYS_BEFORE[sched.k])]
    /\ UNCHANGED <<categories, shared, items, attempts, redisUp, fsm, procs, lastFilter,
                   notifications_enabled, tags>>

\* session.execute raises: the immediate pass of start() is outside the try
\* and ends the task, a pass of the loop is caught and followed by sleep(300)
SchedQueryFails ==
    /\ sched.pc = "query"
    /\ sched' = [sched EXCEPT !.pc = IF sched.first THEN "dead" ELSE "sleep", !.rows = {}]
    /\ UNCHANGED <<categories, shared, items, attempts, redisUp, fsm, procs, lastFilter,
                   notifications_enabled, tags>>

\* one turn of the loop over result.all(): a key not yet in sent is handed to
\* _send_item_reminder, whose try/except swallows a failed delivery, and added
\* to sent
SchedSend ==
    \E r \in sched.rows, ok \in BOOLEAN :
        LET key == <<r.user, r.item, NOTIFICATION_DAYS_BEFORE[sched.k]>> IN
        /\ sched.pc = "send"
        /\ sched' = IF key \in sched.sent
                    THEN [sched EXCEPT !.rows = @ \ {r}]
                    ELSE [sched EXCEPT !.rows = @ \ {r}, !.sent = @ \cup {key},
                                       !.served = IF ok THEN @ \cup {key} ELSE @,
                                       !.failed = IF ok THEN @ ELSE @ \cup {key}]
        /\ UNCHANGED <<categories, shared, items, attempts, redisUp, fsm, procs, lastFilter,
                       notifications_enabled, tags>>

\* the rows of one days_before are done: the next days_before, or the end of
\* the pass (_check_category_notifications finds no row: no handler sets
\* Category.date); after the immediate pass the loop condition, after a pass
\* of the loop sleep(3600)
SchedNext ==
    /\ sched.pc = "send" /\ sched.rows = {}
    /\ sched' = IF sched.k < Len(NOTIFICATION_DAYS_BEFORE)
                THEN [sched EXCEPT !.pc = "query", !.k = @ + 1]
                ELSE [sched EXCEPT !.pc = IF sched.first THEN "check" ELSE "sleep",
                                   !.first = FALSE]
    /\ UNCHANGED <<categories, shared, items, attempts, redisUp, fsm, procs, lastFilter,
                   notifications_enabled, tags>>

\* asyncio.sleep returns
SchedSleep ==
    /\ sched.pc = "sleep"
    /\ sched' = [sched EXCEPT !.pc = "check"]
    /\ UNCHANGED <<categories, shared, items, attempts, redisUp, fsm, procs, lastFilter,
                   notifications_enabled, tags>>

\* while self.running
SchedCheck ==
    /\ sched.pc = "check"
    /\ sched' = [sched EXCEPT !.pc = IF sched.running THEN "begin" ELSE "done"]
    /\ UNCHANGED <<categories, shared, items, attempts, redisUp, fsm, procs, lastFilter,
                   notifications_enabled, tags>>

\* main.run_bot, finally: stop() clears the flag and scheduler_task.cancel()
\* raises CancelledError at the await the task is suspended in; no except
\* Exception clause catches it
Shutdown ==
    /\ sched.pc \in {"begin", "query", "send", "sleep", "check"}
    /\ sched' = [sched EXCEPT !.running = FALSE, !.pc = "cancelled"]
    /\ UNCHANGED <<categories, shared, items, attempts, redisUp, fsm, procs, lastFilter,
                   notifications_enabled, tags>>

\* handlers/setting.py toggle_notifications
ToggleNotifications(U) ==
    \E u \in U :
        /\ notifications_enabled' = [notifications_enabled EXCEPT ![u] = ~@]
        /\ UNCHANGED <<categories, shared, items, attempts, redisUp, fsm, procs, lastFilter,
                       sched, tags>>

\* stores the scheduler may find: items of users 1 and 2 with a date from the
\* dialogue (midnight), a date with a time of day, a legacy date, either flag
SchedDates == {Null, Some(Midnight(2)), Some(Midday(8)), Some(Midnight(5))}
SchedItemRows(i) ==
    {[id |-> i, category_id |-> 1, owner_id |-> i, name |-> "Tent", price |-> Null,
      date_from |-> df, date_to |-> Null, date |-> d, notifications_enabled |-> f] :
        df \in SchedDates, d \in {Null, Some(Midday(2))}, f \in BOOLEAN}
RECURSIVE SchedStores(_)
SchedStores(n) ==
    IF n = 0 THEN {{}}
    ELSE LET less == SchedStores(n - 1) IN
         less \cup {st \cup {x} : st \in {t \in less : Cardinality(t) = n - 1},
                                  x \in SchedItemRows(n)}

InitSched ==
    /\ categories = [c \in CatIds |->
           IF c = 1 THEN [name |-> "Trip", owner |-> 1, sharing_type |-> "collaborative",
                          share_link |-> Rep(ACCESS_CODE_LENGTH, "A")]
           ELSE NoCat]
    /\ shared = {[id |-> 1, category_id |-> 1, user_id |-> 2, can_edit |-> TRUE]}
    /\ items \in SchedStores(MaxSchedItems)
    /\ attempts = [u \in Users |-> NoKey]
    /\ redisUp = TRUE
    /\ fsm = [u \in Users |-> NoFsm]
    /\ procs = [p \in ProcIds |-> IdleProc]
    /\ lastFilter = NoFilter
    /\ notifications_enabled = [u \in Users |-> TRUE]
    /\ sched = NoSched
    /\ tags = {}

\* ------------------------------------------------ price and date dialogues
DigitChars == {"0", "1", "2", "3", "4", "5", "6", "7", "8", "9"}
DigitValue(ch) ==
    CASE ch = "1" -> 1 [] ch = "2" -> 2 [] ch = "3" -> 3 [] ch = "4" -> 4 [] ch = "5" -> 5
      [] ch = "6" -> 6 [] ch = "7" -> 7 [] ch = "8" -> 8 [] ch = "9" -> 9 [] OTHER -> 0
RECURSIVE DigitsValue(_)
DigitsValue(s) ==
    IF s = <<>> THEN 0 ELSE 10 * DigitsValue(SubSeq(s, 1, Len(s) - 1)) + DigitValue(s[Len(s)])
IsPriceChar(ch) == ch \in DigitChars \cup {".", ","}
NotComma(ch) == ch # ","
Chars(s) == {s[i] : i \in 1..Len(s)}

\* float(text) for a text of digits, "." and one leading "-": Null stands for
\* ValueError, [neg, int] for the number (the texts in use carry no fraction
\* digits other than 0, so the value is the integer part; "-0" is -0.0)
float(s) ==
    LET neg == s # <<>> /\ Head(s) = "-"
        body == IF neg THEN Tail(s) ELSE s
        dots == {i \in 1..Len(body) : body[i] = "."}
        int == IF dots = {} THEN body
               ELSE SubSeq(body, 1, (CHOOSE i \in dots : TRUE) - 1)
    IN
    IF Cardinality(dots) > 1 \/ Chars(body) \cap DigitChars = {} \/ "-" \in Chars(body)
    THEN Null
    ELSE Some(IF neg THEN 0 - DigitsValue(int) ELSE DigitsValue(int))

validate_price_keeps_sign(price_string) ==
    IF price_string = <<>> THEN Null
    ELSE
    LET is_negative == Strip(price_string) # <<>> /\ Head(Strip(price_string)) = "-"
        kept == SelectSeq(price_string, IsPriceChar)
        cleaned == IF "," \in Chars(kept) /\ "." \in Chars(kept)
                   THEN SelectSeq(kept, NotComma)
                   ELSE [i \in 1..Len(kept) |-> IF kept[i] = "," THEN "." ELSE kept[i]]
        signed == IF cleaned # <<>> /\ is_negative THEN <<"-">> \o cleaned ELSE cleaned
    IN
    float(signed)

\* utils/helpers.validate_price
validate_price(price_string) ==
    IF price_string = <<>> THEN Null
    ELSE
    LET is_negative == Strip(price_string) # <<>> /\ Head(Strip(price_string)) = "-"
        kept == SelectSeq(price_string, IsPriceChar)
        cleaned == IF "," \in Chars(kept) /\ "." \in Chars(kept)
                   THEN SelectSeq(kept, NotComma)
                   ELSE [i \in 1..Len(kept) |-> IF kept[i] = "," THEN "." ELSE kept[i]]
        signed == IF cleaned # <<>> /\ is_negative THEN <<"-">> \o cleaned ELSE cleaned
        price == float(signed)
    IN
    IF price # Null /\ \A v \in price : v >= 0 THEN price ELSE Null

\* utils/helpers.parse_date: strptime(text.strip(), "%d.%m.%Y") on the texts
\* in use; the result is the midnight of the day, None on ValueError
parse_date(date_string) ==
    CASE date_string = "01.09.2025" -> Some(Midnight(1))
      [] date_string = " 02.09.2025 " -> Some(Midnight(2))
      [] date_string = "03.09.2025" -> Some(Midnight(3))
      [] OTHER -> Null

\* SKIP_BUTTONS, as a typed price and as a typed date
SkipPrice == <<"S", "k", "i", "p">>
SkipDate == "Skip"
PriceInputs ==
    {<<"5">>, <<"-", "5">>, <<" ", "-", " ", "5">>, <<"$", "-", "5">>, <<"1", " ", "5">>,
     <<"1", ",", "5", ".", "0">>, <<"-", "0">>, <<"1", ".", "0", ".", "0">>, <<"-">>,
     <<"a">>, <<>>, SkipPrice}
DateInputs == {"01.09.2025", " 02.09.2025 ", "03.09.2025", "31-12-2025", "", SkipDate}

\* ItemCRUD.update_item(item_id, price=...) and (item_id, date=..., date_from=...,
\* date_to=...): UPDATE ... WHERE id = item_id
update_item_price(i, price) ==
    {IF x.id = i THEN [x EXCEPT !.price = price] ELSE x : x \in items}
update_item_dates(i, date, date_from, date_to) ==
    {IF x.id = i THEN [x EXCEPT !.date = date, !.date_from = date_from, !.date_to = date_to]
     ELSE x : x \in items}

\* the handlers below go on as process_edit_name does after its UPDATE
AfterUpdate(p, u, i) ==
    [procs EXCEPT ![p] = [IdleProc EXCEPT !.pc = "pe_load", !.user = u, !.item = i,
                                          !.kind = "edit",
                                          !.name = IF ItemExists(i) THEN ItemById(i).name
                                                   ELSE ""]]

\* add_item.add_price_handler
AddPriceHandler(p, U) ==
    \E u \in U :
        /\ Idle(p)
        /\ fsm[u].state = "AddItem.select_field"
        /\ fsm' = [fsm EXCEPT ![u].state = "AddItem.price"]
        /\ UNCHANGED <<categories, shared, items, attempts, redisUp, procs, lastFilter, notifications_enabled, sched, tags>>

\* add_item.process_price
ProcessPrice(p, U) ==
    \E u \in U, text \in PriceInputs :
        /\ Idle(p)
        /\ fsm[u].state = "AddItem.price"
        /\ fsm' = IF text = SkipPrice
                  THEN [fsm EXCEPT ![u].state = "AddItem.select_field"]
                  ELSE IF validate_price(text) # Null
                  THEN [fsm EXCEPT ![u].state = "AddItem.select_field",
                                   ![u].price = validate_price(text)]
                  ELSE fsm
        /\ UNCHANGED <<categories, shared, items, attempts, redisUp, procs, lastFilter, notifications_enabled, sched, tags>>

\* add_item.add_date_handler
AddDateHandler(p, U) ==
    \E u \in U :
        /\ Idle(p)
        /\ fsm[u].state = "AddItem.select_field"
        /\ fsm' = [fsm EXCEPT ![u].state = "AddItem.date_type"]
        /\ UNCHANGED <<categories, shared, items, attempts, redisUp, procs, lastFilter, notifications_enabled, sched, tags>>

\* add_item.date_single_handler and date_range_handler
DateSingleHandler(p, U) ==
    \E u \in U :
        /\ Idle(p)
        /\ fsm[u].state = "AddItem.date_type"
        /\ fsm' = [fsm EXCEPT ![u].state = "AddItem.date_single"]
        /\ UNCHANGED <<categories, shared, items, attempts, redisUp, procs, lastFilter, notifications_enabled, sched, tags>>

DateRangeHandler(p, U) ==
    \E u \in U :
        /\ Idle(p)
        /\ fsm[u].state = "AddItem.date_type"
        /\ fsm' = [fsm EXCEPT ![u].state = "AddItem.date_from"]
        /\ UNCHANGED <<categories, shared, items, attempts, redisUp, procs, lastFilter, notifications_enabled, sched, tags>>

\* add_item.process_date_single: update_data(date_from=...) only
ProcessDateSingle(p, U) ==
    \E u \in U, text \in DateInputs :
        /\ Idle(p)
        /\ fsm[u].state = "AddItem.date_single"
        /\ fsm' = IF text = SkipDate
                  THEN [fsm EXCEPT ![u].state = "AddItem.select_field"]
                  ELSE IF parse_date(text) # Null
                  THEN [fsm EXCEPT ![u].state = "AddItem.select_field",
                                   ![u].date_from = parse_date(text)]
                  ELSE fsm
        /\ UNCHANGED <<categories, shared, items, attempts, redisUp, procs, lastFilter, notifications_enabled, sched, tags>>

\* add_item.process_date_from
ProcessDateFrom(p, U) ==
    \E u \in U, text \in DateInputs :
        /\ Idle(p)
        /\ fsm[u].state = "AddItem.date_from"
        /\ fsm' = IF text = SkipDate
                  THEN [fsm EXCEPT ![u].state = "AddItem.select_field"]
                  ELSE IF parse_date(text) # Null
                  THEN [fsm EXCEPT ![u].state = "AddItem.date_to",
                                   ![u].date_from = parse_date(text)]
                  ELSE fsm
        /\ UNCHANGED <<categories, shared, items, attempts, redisUp, procs, lastFilter, notifications_enabled, sched, tags>>

\* add_item.process_date_to: the end date is kept when date_obj >= date_from
ProcessDateTo(p, U) ==
    \E u \in U, text \in DateInputs :
        LET date_obj == parse_date(text)
            date_from == fsm[u].date_from
        IN
        /\ Idle(p)
        /\ fsm[u].state = "AddItem.date_to"
        /\ fsm' = IF text = SkipDate
                  THEN [fsm EXCEPT ![u].state = "AddItem.select_field"]
                  ELSE IF date_obj # Null /\ date_from # Null
                          /\ \A t \in date_obj, f \in date_from : t >= f
                  THEN [fsm EXCEPT ![u].state = "AddItem.select_field",
                                   ![u].date_to = date_obj]
                  ELSE fsm
        /\ UNCHANGED <<categories, shared, items, attempts, redisUp, procs, lastFilter, notifications_enabled, sched, tags>>

\* finish_item: a call after create_item raises (add_tags_to_item,
\* format_item_card, or the Telegram call of the answer); the except branch
\* answers "Failed to create item" and state.clear() is not reached
FiFails(p) ==
    LET me == procs[p] IN
    /\ me.pc \in {"ntf_query", "ntf_send"} /\ me.kind = "add"
    /\ procs' = [procs EXCEPT ![p] = [IdleProc EXCEPT !.reply = "Failed to create item",
                                                      !.item = me.item]]
    /\ UNCHANGED <<categories, shared, items, attempts, redisUp, fsm, lastFilter, notifications_enabled, sched, tags>>

\* admin.edit_item_price
EditItemPrice(p, U) ==
    \E u \in U, i \in ItemIds :
        /\ Idle(p)
        /\ ItemExists(i)
        /\ _can_edit(ItemById(i).category_id, u)
        /\ fsm' = [fsm EXCEPT ![u].state = "EditItem.price", ![u].editing_item_id = i]
        /\ UNCHANGED <<categories, shared, items, attempts, redisUp, procs, lastFilter, notifications_enabled, sched, tags>>

\* admin.process_edit_price
ProcessEditPrice(p, U) ==
    \E u \in U, text \in PriceInputs :
        LET i == fsm[u].editing_item_id
            price == validate_price(text)
        IN
        /\ Idle(p)
        /\ fsm[u].state = "EditItem.price"
        /\ IF text = SkipPrice \/ price # Null
           THEN /\ items' = update_item_price(i, IF text = SkipPrice THEN Null ELSE price)
                /\ procs' = AfterUpdate(p, u, i)
           ELSE UNCHANGED <<items, procs>>
        /\ UNCHANGED <<categories, shared, attempts, redisUp, fsm, lastFilter, notifications_enabled, sched, tags>>

\* admin.edit_item_date
EditItemDate(p, U) ==
    \E u \in U, i \in ItemIds :
        /\ Idle(p)
        /\ ItemExists(i)
        /\ _can_edit(ItemById(i).category_id, u)
        /\ fsm' = [fsm EXCEPT ![u].state = "EditItem.date_type", ![u].editing_item_id = i]
        /\ UNCHANGED <<categories, shared, items, attempts, redisUp, procs, lastFilter, notifications_enabled, sched, tags>>

\* admin.edit_single_date_choice and edit_date_range_choice
EditSingleDateChoice(p, U) ==
    \E u \in U :
        /\ Idle(p)
        /\ fsm[u].state = "EditItem.date_type"
        /\ fsm' = [fsm EXCEPT ![u].state = "EditItem.date_single"]
        /\ UNCHANGED <<categories, shared, items, attempts, redisUp, procs, lastFilter, notifications_enabled, sched, tags>>

EditDateRangeChoice(p, U) ==
    \E u \in U :
        /\ Idle(p)
        /\ fsm[u].state = "EditItem.date_type"
        /\ fsm' = [fsm EXCEPT ![u].state = "EditItem.date_from"]
        /\ UNCHANGED <<categories, shared, items, attempts, redisUp, procs, lastFilter, notifications_enabled, sched, tags>>

\* admin.edit_skip_date: the date is removed
EditSkipDate(p, U) ==
    \E u \in U :
        LET i == fsm[u].editing_item_id IN
        /\ Idle(p)
        /\ fsm[u].state = "EditItem.date_type"
        /\ items' = update_item_dates(i, Null, Null, Null)
        /\ procs' = AfterUpdate(p, u, i)
        /\ UNCHANGED <<categories, shared, attempts, redisUp, fsm, lastFilter, notifications_enabled, sched, tags>>

\* admin.process_edit_single_date
ProcessEditSingleDate(p, U) ==
    \E u \in U, text \in DateInputs :
        LET i == fsm[u].editing_item_id
            date_obj == parse_date(text)
        IN
        /\ Idle(p)
        /\ fsm[u].state = "EditItem.date_single"
        /\ IF text = SkipDate
           THEN /\ items' = update_item_dates(i, Null, Null, Null)
                /\ procs' = AfterUpdate(p, u, i)
           ELSE IF date_obj # Null
           THEN /\ items' = update_item_dates(i, date_obj, date_obj, Null)
                /\ procs' = AfterUpdate(p, u, i)
           ELSE UNCHANGED <<items, procs>>
        /\ UNCHANGED <<categories, shared, attempts, redisUp, fsm, lastFilter, notifications_enabled, sched, tags>>

\* admin.process_edit_date_from (no skip branch)
ProcessEditDateFrom(p, U) ==
    \E u \in U, text \in DateInputs :
        /\ Idle(p)
        /\ fsm[u].state = "EditItem.date_from"
        /\ fsm' = IF parse_date(text) # Null
                  THEN [fsm EXCEPT ![u].state = "EditItem.date_to",
                                   ![u].date_from = parse_date(text)]
                  ELSE fsm
        /\ UNCHANGED <<categories, shared, items, attempts, redisUp, procs, lastFilter, notifications_enabled, sched, tags>>

ProcessEditDateTo_unordered(p, U) ==
    \E u \in U, text \in DateInputs :
        LET i == fsm[u].editing_item_id
            date_to == parse_date(text)
            date_from == fsm[u].date_from
        IN
        /\ Idle(p)
        /\ fsm[u].state = "EditItem.date_to"
        /\ IF date_to # Null /\ date_from # Null
           THEN /\ items' = update_item_dates(i, date_from, date_from, date_to)
                /\ procs' = AfterUpdate(p, u, i)
           ELSE UNCHANGED <<items, procs>>
        /\ UNCHANGED <<categories, shared, attempts, redisUp, fsm, lastFilter, notifications_enabled, sched, tags>>

\* admin.process_edit_date_to: one UPDATE sets date, date_from and date_to
ProcessEditDateTo(p, U) ==
    \E u \in U, text \in DateInputs :
        LET i == fsm[u].editing_item_id
            date_to == parse_date(text)
            date_from == fsm[u].date_from
        IN
        /\ Idle(p)
        /\ fsm[u].state = "EditItem.date_to"
        /\ IF date_to # Null /\ date_from # Null /\ \A t \in date_to, f \in date_from : t >= f
           THEN /\ items' = update_item_dates(i, date_from, date_from, date_to)
                /\ procs' = AfterUpdate(p, u, i)
           ELSE UNCHANGED <<items, procs>>
        /\ UNCHANGED <<categories, shared, attempts, redisUp, fsm, lastFilter, notifications_enabled, sched, tags>>

\* ------------------------------------------------ TagCRUD.get_or_create_tag
MaxTagCount == 3
\* tag names a handler passes on: typed text and the buttons of known tags
TagInputs == {<<"a">>, <<" ", "A", " ">>, <<"b">>}
TagRows(name, u) == {r \in tags : r.name = name /\ r.user_id = u}

\* get_or_create_tag: clean_name = name.strip().lower() and the SELECT; the
\* object that was loaded carries the counter as it was read (0: no row)
TagSelect(p, U) ==
    \E u \in U, name \in TagInputs :
        LET clean == Lower(Strip(name))
            found == TagRows(clean, u)
        IN
        /\ Idle(p)
        /\ clean # NoText
        /\ \A r \in found : r.usage_count < MaxTagCount
        /\ procs' = [procs EXCEPT ![p] =
               [IdleProc EXCEPT !.pc = "tag_write", !.user = u, !.tag = clean,
                                !.count = IF found = {} THEN 0
                                          ELSE (CHOOSE r \in found : TRUE).usage_count]]
        /\ UNCHANGED <<categories, shared, items, attempts, redisUp, fsm, lastFilter,
                       notifications_enabled, sched, tags>>

\* get_or_create_tag: tag.usage_count += 1 and commit (UPDATE with the value
\* computed from the loaded object), or INSERT and commit; the INSERT of a
\* (name, user_id) that exists by now is refused by uix_tag_name_user, and the
\* except branch rolls back and raises
TagWrite(p) ==
    LET me == procs[p] IN
    /\ me.pc = "tag_write"
    /\ IF me.count > 0
       THEN /\ tags' = {IF r.name = me.tag /\ r.user_id = me.user
                         THEN [r EXCEPT !.usage_count = me.count + 1] ELSE r : r \in tags}
            /\ procs' = [procs EXCEPT ![p].pc = "tag_done", ![p].reply = "Returned",
                                      ![p].count = me.count + 1]
       ELSE IF TagRows(me.tag, me.user) # {}
       THEN /\ tags' = tags
            /\ procs' = [procs EXCEPT ![p].pc = "tag_done", ![p].reply = "IntegrityError"]
       ELSE /\ tags' = tags \cup {[name |-> me.tag, user_id |-> me.user, usage_count |-> 1]}
            /\ procs' = [procs EXCEPT ![p].pc = "tag_done", ![p].reply = "Returned",
                                      ![p].count = 1]
    /\ UNCHANGED <<categories, shared, items, attempts, redisUp, fsm, lastFilter,
                   notifications_enabled, sched>>

\* the calling handler goes on with the tag, or ends with the exception
TagDone(p) ==
    /\ procs[p].pc = "tag_done"
    /\ procs' = Finish(p)
    /\ UNCHANGED <<categories, shared, items, attempts, redisUp, fsm, lastFilter,
                   notifications_enabled, sched, tags>>

\* ------------------------------------------------------------ environment
TickSeconds == 300

\* TickSeconds pass: the Redis keys count down and expire
Tick ==
    /\ \E u \in Users : attempts[u].count > 0
    /\ attempts' = [u \in Users |->
           IF attempts[u].count = 0 THEN attempts[u]
           ELSE IF attempts[u].ttl <= TickSeconds THEN NoKey
           ELSE [attempts[u] EXCEPT !.ttl = @ - TickSeconds]]
    /\ UNCHANGED <<categories, shared, items, redisUp, fsm, procs, lastFilter, notifications_enabled, sched, tags>>

\* the Redis server stops / starts answering
RedisDown ==
    /\ redisUp
    /\ redisUp' = FALSE
    /\ UNCHANGED <<categories, shared, items, attempts, fsm, procs, lastFilter, notifications_enabled, sched, tags>>
RedisUp ==
    /\ ~redisUp
    /\ redisUp' = TRUE
    /\ UNCHANGED <<categories, shared, items, attempts, fsm, procs, lastFilter, notifications_enabled, sched, tags>>

\* ----------------------------------------------------------- specifications
CodeInputs == generate_secure_code(ACCESS_CODE_LENGTH)

\* the events of the sharing subsystem: G redeem codes, entering a text of T
ShareStep(p, G, T) ==
    \/ AddCategoryStart(p)
    \/ ProcessCategoryName(p)
    \/ CreateCategoryStep(p, MaxOwned)
    \/ CreateCategoryLink(p)
    \/ CreateCategoryLinkFails(p)
    \/ ChangeSharingType(p, Owners)
    \/ PscStart(p, Owners)
    \/ PscGenerate(p)
    \/ PscUpdate(p)
    \/ PscCollect(p)
    \/ PscRevoke(p)
    \/ PscNotify(p)
    \/ PscRevokeFails(p)
    \/ EnterCodeStart(p, G)
    \/ PacStart(p, G, T)
    \/ PacLookup(p)
    \/ PacFail(p)
    \/ PacCheck(p)
    \/ PacAdd(p)
    \/ PacInsert(p)
    \/ PacReset(p)
    \/ PacAnswer(p)

\* the item events of the users U
ItemStep(p, U) ==
    \/ AddItemStart(p, U)
    \/ ProcessItemName(p, U)
    \/ ProcessCategorySelection(p, U)
    \/ FiStart(p, U)
    \/ FiAccess(p)
    \/ FiCreate(p)
    \/ EditItemName(p, U)
    \/ ProcessEditName(p, U)
    \/ PeLoad(p)
    \/ CdStart(p, U)
    \/ CdDelete(p)
    \/ NtfQuery(p)
    \/ NtfSend(p)
    \/ NtfDone(p)

\* texts a user may enter: a code, a code in lower case between blanks, a
\* text of the wrong length
TextInputs ==
    CodeInputs \cup {<<" ">> \o Rep(ACCESS_CODE_LENGTH, "a") \o <<" ">>, <<"A", "B">>,
                     Rep(ACCESS_CODE_LENGTH - 1, "A") \o <<"_">>}

\* updates are handled as concurrent tasks: their steps interleave
Next == \E p \in ProcIds : ShareStep(p, {2}, CodeInputs)
Spec == Init /\ [][Next]_vars

\* one update at a time, each handled to its end
NextSeq == ShareStep(1, Guests, CodeInputs)
SeqSpec == Init /\ [][NextSeq]_vars

NextFlow == ShareStep(1, {2}, CodeInputs) \/ ItemStep(1, {1, 2})
FlowSpec == Init /\ [][NextFlow]_vars

NextRate == ShareStep(1, {2}, TextInputs) \/ BackButton({2}) \/ Tick \/ RedisDown \/ RedisUp
RateSpec == Init /\ [][NextRate]_vars

\* redemptions of the owner and of a guest while the counter store comes and goes
NextOutage == ShareStep(1, {1, 2}, CodeInputs) \/ RedisDown \/ RedisUp
OutageSpec == Init /\ [][NextOutage]_vars

FilterSpec == InitFilter /\ [][FilterItems]_vars

\* the share code of a category: creation, sharing changes and the menus that
\* show the code, as concurrent tasks
EnsureStep(p) ==
    \/ AddCategoryStart(p)
    \/ ProcessCategoryName(p)
    \/ CreateCategoryStep(p, MaxOwned)
    \/ CreateCategoryLink(p)
    \/ CreateCategoryLinkFails(p)
    \/ ChangeSharingType(p, Owners)
    \/ PscStart(p, Owners)
    \/ PscGenerate(p)
    \/ GenerateCollides(p)
    \/ PscGenerateExhausted(p)
    \/ PscUpdate(p)
    \/ PscCollect(p)
    \/ PscRevoke(p)
    \/ PscNotify(p)
    \/ PscRevokeFails(p)
    \/ CategoryMenu(p, {1, 2})
    \/ EscStart(p)
    \/ EscGenerate(p)
    \/ EscExhausted(p)
    \/ EscUpdate(p)
    \/ EscDone(p)
NextEnsure == \E p \in ProcIds : EnsureStep(p)
EnsureSpec == Init /\ [][NextEnsure]_vars

\* two categories of one owner, created and switched between the sharing
\* types by concurrent tasks
UniqueStep(p) ==
    \/ AddCategoryStart(p)
    \/ ProcessCategoryName(p)
    \/ CreateCategoryStep(p, MaxCats)
    \/ CreateCategoryLink(p)
    \/ CreateCategoryLinkFails(p)
    \/ ChangeSharingType(p, Owners)
    \/ PscStart(p, Owners)
    \/ PscGenerate(p)
    \/ PscUpdate(p)
    \/ PscCollect(p)
    \/ PscRevoke(p)
    \/ PscNotify(p)
    \/ PscRevokeFails(p)
UniqueSpec == Init /\ [][\E p \in ProcIds : UniqueStep(p)]_vars

\* the category management events of the users U
ManageStep(p, U) ==
    \/ ChangeSharingType(p, U)
    \/ PscStart(p, U)
    \/ CategoryRenameStart(p, U)
    \/ RnStart(p, U)
    \/ RnUpdate(p)
    \/ DcStart(p, U)
    \/ DcItems(p)
    \/ DcCategory(p)

\* one update at a time; user 2 also sends the management callbacks
NextManage == ShareStep(1, {1, 2}, CodeInputs) \/ ManageStep(1, {1, 2})
ManageSpec == Init /\ [][NextManage]_vars

\* the scheduler task next to the settings handler and the shutdown of the bot
NextSched ==
    \/ SchedStart
    \/ PassBegin
    \/ SchedQuery
    \/ SchedQueryFails
    \/ SchedSend
    \/ SchedNext
    \/ SchedSleep
    \/ SchedCheck
    \/ Shutdown
    \/ ToggleNotifications({1, 2})
SchedSpec == InitSched /\ [][NextSched]_vars

\* a shared category with two collaborators: the item handlers of one of them,
\* one at a time, and the scheduler task beside them; the stored items are due
\* on both days
InitNotice ==
    /\ categories = [c \in CatIds |->
           IF c = 1 THEN [name |-> "Trip", owner |-> 1, sharing_type |-> "collaborative",
                          share_link |-> Rep(ACCESS_CODE_LENGTH, "A")]
           ELSE NoCat]
    /\ shared = {[id |-> g - 1, category_id |-> 1, user_id |-> g, can_edit |-> TRUE] : g \in Guests}
    /\ items \in {st \in SchedStores(MaxSchedItems) :
                     \A x \in st : /\ x.date_from = Some(Midday(8)) /\ x.date = Some(Midday(2))
                                   /\ x.notifications_enabled}
    /\ attempts = [u \in Users |-> NoKey]
    /\ redisUp = TRUE
    /\ fsm = [u \in Users |-> NoFsm]
    /\ procs = [p \in ProcIds |-> IdleProc]
    /\ lastFilter = NoFilter
    /\ notifications_enabled = [u \in Users |-> TRUE]
    /\ sched = NoSched
    /\ tags = {}
NextNotice ==
    \/ ItemStep(1, {2})
    \/ SchedStart
    \/ PassBegin
    \/ SchedQuery
    \/ SchedSend
    \/ SchedNext
    \/ SchedSleep
    \/ SchedCheck
NoticeSpec == InitNotice /\ [][NextNotice]_vars

\* the owner deletes the category while a collaborator works on its items, as
\* concurrent updates
DeleteStep(p) ==
    \/ ItemStep(p, {2})
    \/ DcStart(p, {1})
    \/ DcItems(p)
    \/ DcCategory(p)
DeleteSpec == InitNotice /\ [][\E p \in ProcIds : DeleteStep(p)]_vars

\* the owner changes the sharing type of a category that has collaborators and
\* items; one filter_items call is made at some point
NextPrivate ==
    \/ ChangeSharingType(1, Owners)
    \/ PscStart(1, Owners)
    \/ PscGenerate(1)
    \/ PscUpdate(1)
    \/ PscCollect(1)
    \/ PscRevoke(1)
    \/ PscNotify(1)
    \/ PscRevokeFails(1)
    \/ FilterItems
PrivateSpec == InitNotice /\ [][NextPrivate]_vars

\* tag handlers of two users as concurrent updates
TagStep(p) ==
    \/ TagSelect(p, {1, 2})
    \/ TagWrite(p)
    \/ TagDone(p)
TagSpec == Init /\ [][\E p \in ProcIds : TagStep(p)]_vars

\* a collaborator of a category goes through the add-item dialogue with price
\* and dates and through the edit-price and edit-date dialogues
InitAttr ==
    /\ categories = [c \in CatIds |->
           IF c = 1 THEN [name |-> "Trip", owner |-> 1, sharing_type |-> "collaborative",
                          share_link |-> Rep(ACCESS_CODE_LENGTH, "A")]
           ELSE NoCat]
    /\ shared = {[id |-> 1, category_id |-> 1, user_id |-> 2, can_edit |-> TRUE]}
    /\ items \in {{}, {[id |-> 1, category_id |-> 1, owner_id |-> 1, name |-> "Tent",
                          price |-> Null, date_from |-> Null, date_to |-> Null,
                          date |-> Null, notifications_enabled |-> TRUE]}}
    /\ attempts = [u \in Users |-> NoKey]
    /\ redisUp = TRUE
    /\ fsm = [u \in Users |-> NoFsm]
    /\ procs = [p \in ProcIds |-> IdleProc]
    /\ lastFilter = NoFilter
    /\ notifications_enabled = [u \in Users |-> TRUE]
    /\ sched = NoSched
    /\ tags = {}
AttrStep(p, U) ==
    \/ AddItemStart(p, U)
    \/ ProcessItemName(p, U)
    \/ ProcessCategorySelection(p, U)
    \/ AddPriceHandler(p, U)
    \/ ProcessPrice(p, U)
    \/ AddDateHandler(p, U)
    \/ DateSingleHandler(p, U)
    \/ DateRangeHandler(p, U)
    \/ ProcessDateSingle(p, U)
    \/ ProcessDateFrom(p, U)
    \/ ProcessDateTo(p, U)
    \/ FiStart(p, U)
    \/ FiAccess(p)
    \/ FiCreate(p)
    \/ FiFails(p)
    \/ EditItemPrice(p, U)
    \/ ProcessEditPrice(p, U)
    \/ EditItemDate(p, U)
    \/ EditSingleDateChoice(p, U)
    \/ EditDateRangeChoice(p, U)
    \/ EditSkipDate(p, U)
    \/ ProcessEditSingleDate(p, U)
    \/ ProcessEditDateFrom(p, U)
    \/ ProcessEditDateTo(p, U)
    \/ PeLoad(p)
    \/ NtfQuery(p)
    \/ NtfSend(p)
    \/ NtfDone(p)
    \/ CdStart(p, U)
    \/ CdDelete(p)
AttrSpec == InitAttr /\ [][AttrStep(1, {2})]_vars

\* ------------------------------------------------------------------ claims
RowsOf(c) == {r \in shared : r.category_id = c}
ItemsOf(c) == {x \in items : x.category_id = c}

\* canEdit(user, category): the owner, or the holder of a grant with can_edit
canEdit(c, u) ==
    /\ c \in CatIds /\ Exists(c)
    /\ (categories[c].owner = u \/ \E r \in RowsOf(c) : r.user_id = u /\ r.can_edit)

\* the items a user may see: own items and the items of categories with a grant
Visible(u) == {x \in items : x.owner_id = u \/ \E r \in shared : r.user_id = u /\ r.category_id = x.category_id}

\* C1: in every reachable state a category is private exactly when it holds
\* no share code, after creation with any type and after every change of type.
C1_Claim ==
    \A c \in CatIds :
        Exists(c) => ((categories[c].sharing_type = "private") <=> (categories[c].share_link = NoText))

\* C2: at most one SharedAccess row exists per (category, user), also when two
\* redemptions of the same user interleave at their awaits.
C2_Claim ==
    \A r1 \in shared, r2 \in shared :
        (r1.category_id = r2.category_id /\ r1.user_id = r2.user_id) => r1 = r2

C4_Claim ==
    \A c \in CatIds :
        (Exists(c) /\ categories[c].sharing_type = "private" /\ categories[c].share_link = NoText)
            => RowsOf(c) = {}

C6_Theorem ==
    (lastFilter.user # 0 /\ DOMAIN lastFilter.filters = {}) =>
        LET u == lastFilter.user IN
        /\ lastFilter.result =
               {x \in items : x.owner_id = u} \cup
               {x \in items : \E r \in shared : r.user_id = u /\ r.category_id = x.category_id}
        /\ \A x \in lastFilter.result :
               x.owner_id = u \/ \E r \in RowsOf(x.category_id) : r.user_id = u
C6_Witness ==
    /\ lastFilter.user # 0 /\ DOMAIN lastFilter.filters = {}
    /\ \E x \in lastFilter.result : x.owner_id # lastFilter.user
    /\ \E x \in lastFilter.result : x.owner_id = lastFilter.user

C9_Theorem ==
    (lastFilter.user # 0 /\ DOMAIN lastFilter.filters = DateKeys) =>
        \A x \in Visible(lastFilter.user) :
            (x.date_to = Null /\ x.date_from # Null) =>
                (x \in lastFilter.result <=>
                    \A d \in x.date_from :
                        lastFilter.filters["date_from"] <= d /\ d <= lastFilter.filters["date_to"])
C9_Witness ==
    /\ lastFilter.user # 0 /\ DOMAIN lastFilter.filters = DateKeys
    /\ \E x \in lastFilter.result : x.date_to = Null /\ x.date_from = Some(2)
    /\ \E x \in Visible(lastFilter.user) \ lastFilter.result :
           x.date_to = Null /\ x.date_from = Some(3)

\* C10: every item mutation is gated by canEdit at the time of the write: an
\* item is created, changed or deleted only by a user for whom canEdit holds
\* on the item's category in the state the write is made in.
C10_Claim ==
    [][/\ \A p \in ProcIds :
             (Idle(p) /\ procs'[p].pc = "pe_load" /\ items' # items)
                 => \A x \in items \ items' : canEdit(x.category_id, procs'[p].user)
       /\ \A p \in ProcIds :
             (procs[p].pc \in {"fi_create", "cd_delete"} /\ items' # items)
                 => \A x \in (items \ items') \cup (items' \ items) :
                        canEdit(x.category_id, procs[p].user)]_vars

\* C11: only the owner of a category renames it, deletes it or changes its
\* sharing type: a step of one of these operations made for a user who is not
\* the owner leaves the categories, the items and the grants as they are.
C11_Claim ==
    [][\A p \in ProcIds :
          LET me == procs[p] IN
          (/\ me.pc \in {"psc_update", "psc_revoke", "rn_update", "dc_items", "dc_category"}
           /\ me.cid \in CatIds /\ Exists(me.cid)
           /\ categories[me.cid].owner # me.user)
          => (categories' = categories /\ items' = items /\ shared' = shared)]_vars

\* C12: a redemption decides in this order: no category holds the code ->
\* CodeNotFound; the category is private -> CategoryIsPrivate; the caller owns
\* it -> SelfOwned; a grant of the caller exists -> AlreadyMember; otherwise
\* exactly one row is written with can_edit = (sharing_type = collaborative)
\* -> Granted.  Only the Granted outcome changes the set of grant rows.
C12_Theorem ==
    /\ [](\A p \in ProcIds :
             LET me == procs[p]
                 found == get_category_by_share_link(me.code)
             IN
             me.pc = "pac_answer" =>
                 /\ me.reply \in {"RateLimited", "BadFormat", "CodeNotFound", "CategoryIsPrivate",
                                  "SelfOwned", "AlreadyMember", "Granted"}
                 /\ me.reply = "CodeNotFound" => found = {}
                 /\ me.reply = "CategoryIsPrivate" =>
                        \E c \in found : categories[c].sharing_type = "private"
                 /\ me.reply = "SelfOwned" =>
                        \E c \in found : /\ categories[c].sharing_type # "private"
                                          /\ categories[c].owner = me.user
                 /\ me.reply \in {"AlreadyMember", "Granted"} =>
                        \E c \in found :
                            /\ categories[c].sharing_type # "private"
                            /\ categories[c].owner # me.user
                            /\ Cardinality(check_user_access(c, me.user)) = 1
                 /\ (me.reply \notin {"RateLimited", "BadFormat"} /\ found = {})
                        => me.reply = "CodeNotFound"
                 /\ (me.reply # "RateLimited" /\ \E c \in found : categories[c].sharing_type = "private")
                        => me.reply = "CategoryIsPrivate"
                 /\ (me.reply # "RateLimited" /\
                        \E c \in found : categories[c].sharing_type # "private" /\ categories[c].owner = me.user)
                        => me.reply = "SelfOwned")
    /\ [][\A p \in ProcIds :
             LET me == procs[p] IN
             /\ (me.pc = "pac_check" /\ check_user_access(me.cid, me.user) # {})
                    => (procs'[p].reply = "AlreadyMember" /\ shared' = shared)
             /\ (me.pc = "pac_check" /\ check_user_access(me.cid, me.user) = {})
                    => procs'[p].pc = "pac_add"
             /\ (me.pc \in {"pac_lookup", "pac_fail", "pac_check", "pac_add", "pac_insert",
                             "pac_reset", "pac_answer"} /\ shared' # shared)
                    => /\ me.pc = "pac_insert" /\ procs'[p].reply = "Granted"
                       /\ shared \subseteq shared'
                       /\ \E r \in shared' \ shared :
                              /\ shared' \ shared = {r}
                              /\ r.category_id = me.cid /\ r.user_id = me.user
                              /\ r.can_edit = (categories[me.cid].sharing_type = "collaborative")]_vars
C12_Witness ==
    \E p \in ProcIds :
        /\ procs[p].pc = "pac_answer" /\ procs[p].reply = "Granted"
        /\ categories[procs[p].cid].sharing_type = "view_only"
        /\ \E r \in shared : r.user_id = procs[p].user /\ ~r.can_edit

C14_Claim ==
    \A c \in CatIds :
        (Exists(c) /\ categories[c].share_link # NoText)
            => /\ FormatOk(categories[c].share_link)
               /\ c \in get_category_by_share_link(Upper(Strip(categories[c].share_link)))

\* C15: the failed attempt that brings a user's counter to
\* ACCESS_CODE_MAX_ATTEMPTS sets the expiry of the counter to
\* ACCESS_CODE_BLOCK_SECONDS and returns that full duration, however long ago
\* the first failed attempt was; a failed attempt below the threshold returns 0.
C15_Claim ==
    [][\A p \in ProcIds :
          LET me == procs[p]
              k == attempts[me.user]
          IN
          (me.pc = "pac_fail" /\ procs'[p] # me /\ redisUp /\ k.count < ACCESS_CODE_MAX_ATTEMPTS)
              => IF k.count + 1 = ACCESS_CODE_MAX_ATTEMPTS
                 THEN /\ attempts'[me.user].count = ACCESS_CODE_MAX_ATTEMPTS
                      /\ attempts'[me.user].ttl = ACCESS_CODE_BLOCK_SECONDS
                      /\ RegisterTtl(k) = ACCESS_CODE_BLOCK_SECONDS
                 ELSE /\ RegisterTtl(k) = 0
                      /\ procs'[p].reply # "RateLimited"]_vars

\* C16: every redemption answered Granted leaves the failed-attempt counter of
\* the redeeming user at zero.
C16_Claim ==
    \A p \in ProcIds :
        (procs[p].pc = "pac_answer" /\ procs[p].reply = "Granted")
            => attempts[procs[p].user].count = 0

\* C16, amended: a Granted redemption always runs the reset before its answer,
\* and the reset deletes the user's counter when the counter store answers.
C16_Theorem ==
    [][\A p \in ProcIds :
          LET me == procs[p] IN
          /\ (me.pc = "pac_reset" /\ procs'[p] # me /\ me.reply = "Granted" /\ redisUp)
                 => (attempts'[me.user] = NoKey /\ procs'[p].pc = "pac_answer")
          /\ (procs'[p].pc = "pac_answer" /\ procs'[p].reply = "Granted" /\ me.pc # "pac_answer")
                 => me.pc = "pac_reset"]_vars
C16_Witness ==
    \E p \in ProcIds :
        /\ procs[p].pc = "pac_reset" /\ procs[p].reply = "Granted" /\ redisUp
        /\ attempts[procs[p].user].count > 1
        /\ \E r \in shared : r.user_id = procs[p].user /\ r.category_id = procs[p].cid

\* C17: a redemption whose text, trimmed and upper-cased, fails the format
\* check goes to the rate limiter and never to the lookup: it is registered as
\* one failed attempt (the counter of a user who is not blocked grows by
\* exactly one while the store answers) and is answered without reading or
\* writing the database.
C17_Theorem ==
    /\ [](\A p \in ProcIds :
            /\ procs[p].pc \in {"pac_lookup", "pac_check", "pac_add", "pac_insert", "pac_reset"}
                  => FormatOk(procs[p].code)
            /\ procs[p].reply = "BadFormat"
                  => (procs[p].pc \in {"pac_fail", "pac_answer"} /\ procs[p].cid = 0))
    /\ [][\A p \in ProcIds :
            LET me == procs[p] IN
            /\ (Idle(p) /\ procs'[p].pc \in {"pac_fail", "pac_lookup", "pac_answer"}
                   /\ ~FormatOk(procs'[p].code)
                   /\ BlockTtl(attempts[procs'[p].user]) = 0)
                  => (procs'[p].pc = "pac_fail" /\ procs'[p].reply = "BadFormat")
            /\ (me.pc = "pac_fail" /\ me.reply = "BadFormat" /\ procs'[p] # me)
                  => /\ procs'[p].pc = "pac_answer"
                     /\ UNCHANGED <<categories, shared, items>>
                     /\ (redisUp /\ attempts[me.user].count < ACCESS_CODE_MAX_ATTEMPTS)
                           => attempts'[me.user].count = attempts[me.user].count + 1]_vars
C17_Witness ==
    \E p \in ProcIds :
        /\ procs[p].pc = "pac_answer" /\ procs[p].reply = "BadFormat"
        /\ Len(procs[p].code) = ACCESS_CODE_LENGTH
        /\ attempts[procs[p].user].count = 2

C20_Theorem ==
    /\ [](\A p \in ProcIds : procs[p].tries < ShareCodeTries)
    /\ [][\A p \in ProcIds :
            LET me == procs[p] IN
            (me.pc \in {"psc_gen", "esc_gen"} /\ procs'[p] # me)
                => /\ categories' = categories
                   /\ shared' = shared
                   /\ procs'[p].pc = me.pc => procs'[p].tries = me.tries + 1
                   /\ procs'[p].pc = "idle"
                         => /\ me.tries = ShareCodeTries - 1
                            /\ generate_unique_share_code # generate_secure_code(ACCESS_CODE_LENGTH)
                   /\ procs'[p].pc \in {"psc_update", "esc_update"}
                         => get_category_by_share_link(procs'[p].code) = {}]_vars
C20_Witness ==
    \E p \in ProcIds :
        /\ procs[p].pc = "psc_gen"
        /\ procs[p].tries = ShareCodeTries - 1
        /\ generate_unique_share_code # generate_secure_code(ACCESS_CODE_LENGTH)
        /\ categories[procs[p].cid].sharing_type # procs[p].stype

\* C21: no two categories hold the same share code, also when two sharing
\* changes draw the same unused code before either of them writes it.
C21_Theorem ==
    \A c \in CatIds, d \in CatIds :
        (c # d /\ Exists(c) /\ Exists(d) /\ categories[c].share_link # NoText)
            => categories[c].share_link # categories[d].share_link
C21_Witness ==
    \E p \in ProcIds :
        /\ procs[p].pc = "psc_update"
        /\ Len(procs[p].code) = ACCESS_CODE_LENGTH
        /\ \E d \in CatIds \ {procs[p].cid} :
               /\ Exists(d) /\ categories[d].share_link = procs[p].code
               /\ categories[d].sharing_type \in SharedTypes

\* C22: the unfiltered result of filter_items for a user holds every item of
\* every category that user owns, whoever added the item.
C22_Claim ==
    (lastFilter.user # 0 /\ DOMAIN lastFilter.filters = {}) =>
        \A x \in items :
            (Exists(x.category_id) /\ categories[x.category_id].owner = lastFilter.user)
                => x \in lastFilter.result

\* C23: the result of filter_items(user, F) lies within the unfiltered result
\* for the same user and is exactly the part of it that satisfies the
\* predicate of every key supplied in F.
C23_Claim ==
    lastFilter.user # 0 =>
        LET f == lastFilter.filters
            base == filter_items(lastFilter.user, NoFilters)
            Sat(x, k) ==
                CASE k = "price_min" -> \E v \in x.price : v >= f[k]
                  [] k = "price_max" -> \E v \in x.price : v <= f[k]
                  [] k = "price_exact" -> \E v \in x.price : v = f[k]
                  [] k = "date_from" -> \E d \in x.date_from : d >= f[k]
                  [] OTHER -> \/ \E d \in x.date_to : d <= f[k]
                              \/ (x.date_to = Null /\ \E d \in x.date_from : d <= f[k])
        IN
        /\ lastFilter.result \subseteq base
        /\ lastFilter.result = {x \in base : \A k \in DOMAIN f : Sat(x, k)}

\* C24: under a filter with date_from and date_to, a visible item that has
\* both a date_from and a date_to is in the result exactly when its date_to
\* lies within the window, also when its date_from is before the window.
C24_Claim ==
    (lastFilter.user # 0 /\ DOMAIN lastFilter.filters = DateKeys) =>
        \A x \in Visible(lastFilter.user) :
            (x.date_from # Null /\ x.date_to # Null) =>
                (x \in lastFilter.result <=>
                    \A e \in x.date_to :
                        lastFilter.filters["date_from"] <= e /\ e <= lastFilter.filters["date_to"])


\* C25: a pass selects an item for a reminder only together with its owning
\* user and only if, when the pass reads the store, the item's flag and the
\* owner's flag are set and date_from or the legacy date lies on the day
\* today + N of the N the pass is at; a reminder is sent only for a selected
\* row, to the user of that row, with N one of 7 and 1
C25_Theorem ==
    [][/\ (sched.pc = "query" /\ sched'.pc = "send") =>
            \A r \in sched'.rows :
                \E x \in items :
                    LET n == NOTIFICATION_DAYS_BEFORE[sched.k] IN
                    /\ x.id = r.item /\ x.owner_id = r.user
                    /\ x.notifications_enabled /\ notifications_enabled[r.user]
                    /\ \/ \E t \in x.date_from : DayOf(t) = sched.now.day + n
                       \/ \E t \in x.date : DayOf(t) = sched.now.day + n
       /\ \A key \in (sched'.served \cup sched'.failed) \ (sched.served \cup sched.failed) :
            /\ sched.pc = "send"
            /\ key[3] \in {7, 1}
            /\ key[3] = NOTIFICATION_DAYS_BEFORE[sched.k]
            /\ [item |-> key[2], user |-> key[1]] \in sched.rows]_vars
\* a pass has sent the reminder of one item and found nothing to send for the
\* other item, whose owner switched the notifications off
C25_Witness ==
    /\ sched.served # {}
    /\ \E x \in items :
        /\ ~notifications_enabled[x.owner_id]
        /\ \E t \in x.date_from : DayOf(t) = sched.now.day + 1
        /\ \A key \in sched.sent : key[2] # x.id
    /\ sched.pc = "check"

\* C26: the change notice of an item added, edited or deleted in a category is
\* addressed to exactly the owner of the category and the users holding a
\* grant on it, without the acting user and without the users whose
\* notification flag is off
C26_Claim ==
    [][\A p \in ProcIds :
        LET me == procs[p] IN
        (me.pc = "ntf_query" /\ procs'[p].pc = "ntf_send" /\ Exists(me.cid)) =>
            procs'[p].users =
                {u \in ({categories[me.cid].owner} \cup SharedUsersOf(me.cid)) \ {me.user} :
                    notifications_enabled[u]}]_vars

\* C27: whenever a change notice is handed to a recipient, the change it
\* reports is in the store: the added item exists in its category, the edited
\* item carries the new name, the deleted item is gone
C27_Theorem ==
    [][\A p \in ProcIds :
        LET me == procs[p] IN
        (me.pc = "ntf_send" /\ procs'[p].users # me.users) =>
            /\ me.kind = "add" =>
                  \E x \in items : x.id = me.item /\ x.category_id = me.cid /\ x.owner_id = me.user
            /\ me.kind = "edit" => \E x \in items : x.id = me.item /\ x.name = me.name
            /\ me.kind = "delete" => ~ItemExists(me.item)
            /\ me.kind \in {"add", "edit", "delete"}]_vars
\* the notice of a deletion has reached the owner of the category
C27_Witness ==
    \E p \in ProcIds :
        /\ procs[p].pc = "ntf_send" /\ procs[p].kind = "delete"
        /\ procs[p].served = {procs[p].owner} /\ procs[p].user # procs[p].owner
        /\ ~ItemExists(procs[p].item)

\* C28: a failed delivery of a change notice leaves the handler in its loop
\* with the other recipients still to be served and the store untouched; the
\* handler leaves the loop only when no recipient is left, and then completes
\* with the change still in the store. A failed reminder leaves the pass in
\* its loop with the other rows still to be served; the pass leaves the loop
\* only when no row is left, and the scheduler task never ends
C28_Theorem ==
    /\ [][\A p \in ProcIds :
            LET me == procs[p] IN
            /\ (me.pc = "ntf_send" /\ procs'[p].failed \ me.failed # {}) =>
                  /\ procs'[p].pc = "ntf_send"
                  /\ \E u \in me.users : /\ procs'[p].users = me.users \ {u}
                                          /\ procs'[p].failed = me.failed \cup {u}
                  /\ procs'[p].served = me.served
                  /\ items' = items
            /\ (me.pc = "ntf_send" /\ procs'[p].pc # "ntf_send") =>
                  /\ me.users = {}
                  /\ procs'[p] = IdleProc
                  /\ items' = items
                  /\ (me.kind = "add") =>
                        (\E x \in items : x.id = me.item /\ x.category_id = me.cid)
                  /\ (me.kind = "edit") =>
                        (\E x \in items : x.id = me.item /\ x.name = me.name)
                  /\ (me.kind = "delete") => ~ItemExists(me.item)]_vars
    /\ [][(sched.pc = "send" /\ sched'.failed \ sched.failed # {}) =>
              /\ sched'.pc = "send" /\ sched'.running
              /\ \E r \in sched.rows : sched'.rows = sched.rows \ {r}
              /\ sched'.served = sched.served]_vars
    /\ [][(sched.pc = "send" /\ sched'.pc # "send") =>
              /\ sched.rows = {}
              /\ sched'.pc \in {"query", "check", "sleep"}]_vars
    /\ [](sched.pc \notin {"dead", "done", "cancelled"})
\* the delivery to one collaborator failed, the other one was served and the
\* handler is about to complete; in the same state a pass of the scheduler has
\* lost one reminder and sent another
C28_Witness ==
    /\ \E p \in ProcIds :
        /\ procs[p].pc = "ntf_send" /\ procs[p].users = {}
        /\ procs[p].failed # {} /\ procs[p].served # {}
    /\ sched.failed # {} /\ sched.served # {} /\ sched.pc = "send"

\* C29: once the running flag is cleared no further pass begins, and a pass
\* that is in flight when the flag is cleared goes on from where it is: it is
\* not ended with rows of its query still unsent
C29_Claim ==
    /\ [][(~sched.running /\ sched.pc # "off") => sched'.pc # "begin"]_vars
    /\ [][(sched.running /\ ~sched'.running /\ sched.pc \in {"query", "send"}) =>
              (sched'.pc = sched.pc /\ sched'.rows = sched.rows)]_vars
    /\ [](sched.pc \in {"cancelled", "done"} => sched.rows = {})

\* C30: when confirm_delete_category completes, the store holds no item of
\* the deleted category and no grant on it, whatever a collaborator's add-item
\* dialogue did meanwhile
C30_Claim ==
    [][\A p \in ProcIds :
        (procs[p].pc = "dc_category" /\ procs'[p].pc = "idle") =>
            /\ \A x \in items' : x.category_id # procs[p].cid
            /\ \A r \in shared' : r.category_id # procs[p].cid]_vars

\* C39: a call whose only key is price_exact or price_max with the value 0
\* returns what the call without filters returns for the same user, items
\* with a price above 0 and items without a price included
C39_Theorem ==
    (/\ lastFilter.user # 0
     /\ \E k \in {"price_exact", "price_max"} :
            DOMAIN lastFilter.filters = {k} /\ lastFilter.filters[k] = 0) =>
        /\ lastFilter.result = filter_items(lastFilter.user, NoFilters)
        /\ lastFilter.result =
               {x \in items : \/ x.owner_id = lastFilter.user
                              \/ x.category_id \in shared_category_ids(lastFilter.user)}
\* price_max = 0 was supplied and the result holds an item that costs 100
C39_Witness ==
    /\ lastFilter.user # 0
    /\ DOMAIN lastFilter.filters = {"price_max"} /\ lastFilter.filters["price_max"] = 0
    /\ \E x \in lastFilter.result : x.price = Some(100)
    /\ \E x \in lastFilter.result : x.price = Null

\* C38: a filter_items call without filters made for a collaborator of the
\* category once the change to private has been handled (the category is
\* private and no handler is at work) returns an item of the category if and
\* only if the collaborator is its owner_id
C38_Claim ==
    [][(/\ lastFilter = NoFilter /\ lastFilter' # NoFilter
        /\ Quiescent
        /\ categories[1].sharing_type = "private"
        /\ lastFilter'.user \in Guests
        /\ DOMAIN lastFilter'.filters = {}) =>
            \A x \in items :
                x.category_id = 1 => (x \in lastFilter'.result <=> x.owner_id = lastFilter'.user)]_vars

\* C36: a pass that raises is followed by a pause and a further pass, the
\* immediate pass of start() included: the task ends only through a shutdown
C36_Claim ==
    /\ [](sched.pc # "dead")
    /\ [][(sched.pc = "query" /\ sched'.pc \notin {"query", "send", "cancelled"}) =>
              sched'.pc = "sleep"]_vars
    /\ [][(sched.pc = "sleep" /\ sched'.pc # "sleep") => sched'.pc \in {"check", "cancelled"}]_vars

\* C37: every pass starts with an empty set of sent keys; for each N the pass
\* selects every item whose flags are set and whose date_from or legacy date
\* lies on the day today + N, and hands each selected row to the delivery
\* once; the immediate pass of start() is followed by the loop condition and
\* a second pass without a sleep in between
C37_Claim ==
    /\ [][(sched.pc = "begin" /\ sched'.pc = "query") => sched'.sent = {}]_vars
    /\ [][(sched.pc = "query" /\ sched'.pc = "send") =>
              \A x \in items :
                  LET n == NOTIFICATION_DAYS_BEFORE[sched.k] IN
                  (/\ x.notifications_enabled /\ notifications_enabled[x.owner_id]
                   /\ \/ \E t \in x.date_from : DayOf(t) = sched.now.day + n
                      \/ \E t \in x.date : DayOf(t) = sched.now.day + n)
                      => [item |-> x.id, user |-> x.owner_id] \in sched'.rows]_vars
    /\ [](sched.served \cap sched.failed = {})
    /\ [][(sched.first /\ sched.pc = "send" /\ sched'.pc \notin {"send", "query", "cancelled"}) =>
              sched'.pc = "check"]_vars

\* C31: the tags table never holds two rows with the same name and user, and
\* a get_or_create_tag call that writes while a row of its (name, user)
\* exists returns that row with the stored usage counter raised by one and
\* does not end with a conflict error
C31_Claim ==
    /\ [](\A r1, r2 \in tags : (r1.name = r2.name /\ r1.user_id = r2.user_id) => r1 = r2)
    /\ [][\A p \in ProcIds :
            LET me == procs[p] IN
            (me.pc = "tag_write" /\ procs'[p].pc = "tag_done" /\ TagRows(me.tag, me.user) # {}) =>
                /\ procs'[p].reply = "Returned"
                /\ \A r \in TagRows(me.tag, me.user) :
                      /\ [r EXCEPT !.usage_count = r.usage_count + 1] \in tags'
                      /\ procs'[p].count = r.usage_count + 1]_vars

\* C32: every stored item that has both date_from and date_to has
\* date_to >= date_from, after any sequence of add-item and edit-date
\* dialogues (single date, range, removal)
C32_Theorem ==
    \A x \in items :
        (x.date_from # Null /\ x.date_to # Null) =>
            \A f \in x.date_from, t \in x.date_to : t >= f
\* a range was stored by the edit dialogue while the dialogue data of an
\* add-item dialogue of the same user was left with an end before its start
C32_Witness ==
    /\ \E x \in items : x.date_from = Some(Midnight(1)) /\ x.date_to = Some(Midnight(3))
    /\ fsm[2].state = "AddItem.select_field"
    /\ fsm[2].date_from = Some(Midnight(3)) /\ fsm[2].date_to = Some(Midnight(2))

C34_Claim ==
    [][\A p \in ProcIds :
          LET me == procs[p] IN
          (me.pc = "fi_create" /\ procs'[p].pc = "ntf_query" /\ items' # items) =>
              \A x \in items' \ items :
                  /\ x.price = fsm[me.user].price
                  /\ x.date_from = fsm[me.user].date_from
                  /\ x.date_to = fsm[me.user].date_to]_vars

\* C35: Finish is all-or-nothing: when the handler ends with the answer
\* "Failed to create item" the item it was creating is not in the store, and
\* when it ends otherwise after the INSERT the dialogue state is cleared
C35_Claim ==
    [][\A p \in ProcIds :
          LET me == procs[p] IN
          (me.kind = "add" /\ me.pc \in {"ntf_query", "ntf_send"} /\ Idle(p)') =>
              IF procs'[p].reply = "Failed to create item"
              THEN ~\E x \in items' : x.id = me.item
              ELSE fsm'[me.user] = NoFsm]_vars
====
